---- MODULE Spec2Model ----
(***************************************************************************)
(* The command-execution core of the Dreamcast GD-ROM driver               *)
(* (kernel/arch/dreamcast/hardware/cdrom.c): the G1 ATA mutex, the         *)
(* submit / poll / classify cycle of cdrom_exec_cmd_timed, the drive       *)
(* status query, the sector-format negotiation and the reinitializer.      *)
(* Every thread is a program counter over the statements of these          *)
(* functions; the BIOS command processor behind the syscall_gdrom_* calls  *)
(* is the environment and answers within the contract dc/cdrom.h states.   *)
(***************************************************************************)
EXTENDS Integers, Sequences, FiniteSets

\* ------------------------------------------------------------------ bounds
\* Commands the command processor keeps at a time (the slots of its table).
MaxCmds == 2
\* How many times the millisecond timer is seen to advance.
MaxClockSteps == 2
\* Milliseconds the timer advances by between two readings.
TimeQuantum == 5000
\* Firmware calls of the running cycle that are remembered, newest last.
HistLen == 3
\* Leading TOC entries that vary one by one; the others are all alike.
MaxTracks == 3

\* ------------------------------------------------------- program constants
CD_CMD_RETRY_MAX == 10
REINIT_TIMEOUT == 10000

CD_ERR_OK == 0
CD_ERR_NO_DISC == 1
CD_ERR_DISC_CHG == 2
CD_ERR_SYS == 3
CD_ERR_ABORTED == 4
CD_ERR_NO_ACTIVE == 5
CD_ERR_TIMEOUT == 6

CD_CMD_FAILED == -1
CD_CMD_NOT_FOUND == 0
CD_CMD_PROCESSING == 1
CD_CMD_COMPLETED == 2
CD_CMD_STREAMING == 3
CD_CMD_BUSY == 4

CMD_PIOREAD == 16
CMD_INIT == 24

CD_READ_WHOLE_SECTOR == 4096
CD_READ_DATA_AREA == 8192
CD_READ_DEFAULT == -1

CD_TRACK_TYPE_MODE2_FORM1 == 2048
CD_TRACK_TYPE_MODE1 == 1024
CD_TRACK_TYPE_ANY == 0
CD_TRACK_TYPE_DEFAULT == -1

CD_STATUS_PAUSED == 1

CD_CDROM == 16
CD_CDROM_XA == 32

\* ------------------------------------------------------------- input sets
\* Two threads call into the driver.
Threads == {1, 2}
NoThread == 0
Handles == 1..MaxCmds
\* cd_cmd_code_t values the callers submit.
Cmds == {CMD_PIOREAD}
\* Timeouts (ms) the callers of cdrom_exec_cmd_timed pass; 0 is "no timeout".
Timeouts == {0, TimeQuantum}
\* Primary error codes the command processor reports (2 no disc, 6 disc changed).
Err1Vals == {0, 2, 6}
\* Disc types the drive reports.
DiscTypes == {CD_CDROM, CD_CDROM_XA}
\* Arguments of the sector-format negotiation.
SectorParts == {CD_READ_DEFAULT, CD_READ_WHOLE_SECTOR, CD_READ_DATA_AREA}
TrackTypes == {CD_TRACK_TYPE_DEFAULT, CD_TRACK_TYPE_ANY, CD_TRACK_TYPE_MODE1}
SectorSizes == {-1, 2048, 2352}
Triple(p, k, z) == [sector_part |-> p, track_type |-> k, sector_size |-> z]
\* Arguments cdrom_reinit_ex is called with: those of cdrom_reinit and of
\* cdrom_set_sector_size(2352).
ReinitArgs == {Triple(CD_READ_DEFAULT, CD_TRACK_TYPE_DEFAULT, -1),
               Triple(CD_READ_DEFAULT, CD_TRACK_TYPE_DEFAULT, 2352)}
\* Arguments the callers of cdrom_change_datatype pass.
ChangeArgs == ReinitArgs \cup {Triple(CD_READ_WHOLE_SECTOR, CD_TRACK_TYPE_ANY, 2352)}
\* Every combination of sector part, track type and sector size.
AllChangeArgs ==
    {Triple(p, k, z) : p \in SectorParts, k \in TrackTypes, z \in SectorSizes}
\* Results of syscall_gdrom_sector_mode.
SectorModeResults == {0, -1}

VARIABLES
    mutex,      \* _g1_ata_mutex: the owning thread, or NoThread
    pc,         \* pc[t]: the statement thread t is at
    op,         \* op[t]: the outermost driver function thread t is in
    cmd,        \* cdrom_exec_cmd_timed: parameter cmd
    timeout,    \* cdrom_exec_cmd_timed: parameter timeout
    id,         \* cdrom_exec_cmd_timed: local id
    i,          \* cdrom_exec_cmd_timed: local i
    n,          \* cdrom_exec_cmd_timed: local n
    status,     \* cdrom_exec_cmd_timed: local status (err1 field)
    begin,      \* cdrom_exec_cmd_timed: local begin
    tnow,       \* cdrom_exec_cmd_timed: the timer value read at line 99
    ret,        \* the value the function thread t is in (or last left) returns
    hist,       \* firmware calls of thread t's running command cycle, newest last
    aborts,     \* syscall_gdrom_abort_command calls of thread t's running cycle
    reported,   \* extended status the processor wrote at thread t's last check
    args,       \* sector-format arguments (sector_part, track_type, sector_size)
    asked,      \* the sector-format arguments as the caller passed them
    out,        \* cdrom_get_status: the caller's *status and *disc_type
    params,     \* the local cd_check_drive_params_t (params, check_params)
    drive,      \* what the drive reported at thread t's last check_drive call
    pushed,     \* syscall_gdrom_sector_mode calls of thread t's running
                \* cdrom_change_datatype: <<triple, result>>, newest last
    loc,        \* cdrom_locate_data_track: the TOC and the locals of a call
    runs,       \* two command cycles side by side, their status checks
                \* answered alike but for err2, size and ata
    now,        \* timer_ms_gettime64()
    cmds        \* the command processor's table: handle -> state of the command

vars == <<mutex, pc, op, cmd, timeout, id, i, n, status, begin, tnow, ret, hist,
          aborts, reported, args, asked, out, params, drive, pushed, loc, runs,
          now, cmds>>

\* --------------------------------------------------------------- helpers
\* The firmware calls thread-local history keeps: <<call, handle>>.
Push(h, e) ==
    LET s == Append(h, e)
    IN  IF Len(s) > HistLen THEN SubSeq(s, Len(s) - HistLen + 1, Len(s)) ELSE s

NoStatus == [err1 |-> 0]
NoArgs == [sector_part |-> 0, track_type |-> 0, sector_size |-> 0]
\* What the caller's *status and *disc_type hold before they are written.
NoOut == [status |-> -99, disc_type |-> -99]
\* No call of cdrom_locate_data_track is running.
NoLoc == [pc |-> "none"]
\* No pair of cycles is being compared.
NoRuns == [pc |-> "none"]
\* cd_check_drive_params_t params = {0}
ZeroParams == [status |-> 0, disc_type |-> 0]

\* --------------------------------------------------- the mutex (kos/mutex.h)
\* mutex_lock blocks until the mutex is free: the step taking it is enabled
\* only then.  A thread that already owns it waits for itself forever.
mutex_is_free == mutex = NoThread

\* mutex_unlock by the owner frees the mutex; by anybody else it does nothing.
mutex_unlock(t) == IF mutex = t THEN NoThread ELSE mutex

\* mutex_lock_irqsafe, the non-blocking acquire of the status query: 0 and
\* the mutex taken when it was free, a failure and nothing changed when held.
\* The outcome is <<result, owner afterwards>>.
mutex_lock_irqsafe(t) == IF mutex = NoThread THEN <<0, t>> ELSE <<-1, mutex>>

\* -------------------------------------- the command processor (the BIOS)
InFlight(cs) == {h \in Handles : cs[h] \in {"processing", "aborting"}}

\* syscall_gdrom_send_command: a handle (>= 1) when the processor takes the
\* command, 0 when it cannot right now, a negative value on an error.  The
\* processor has MaxCmds slots and a handle names the slot.  Each outcome is
\* <<id, command table>>.
syscall_gdrom_send_command(c) ==
    LET free == {h \in Handles : cmds[h] = "none"}
    IN  {<<0, cmds>>, <<-1, cmds>>}
        \cup (IF free # {}
              THEN LET h == CHOOSE x \in free : \A y \in free : x <= y
                   IN  {<<h, [cmds EXCEPT ![h] = "processing"]>>}
              ELSE {})

\* syscall_gdrom_exec_server: one tick of the processor.  An abort that was
\* accepted lands; at most one command in progress moves on: it finishes
\* (completed, streaming or failed, as the next check will tell) or is dropped.
syscall_gdrom_exec_server ==
    LET landed == [h \in Handles |->
                     IF cmds[h] = "aborting" THEN "none" ELSE cmds[h]]
    IN  {landed}
        \cup {[landed EXCEPT ![h] = s] :
                h \in {x \in Handles : landed[x] = "processing"},
                s \in {"done", "none"}}

\* syscall_gdrom_check_command: the status of handle h, and the primary
\* error code of the extended status the processor writes with it.  A
\* finished command is reported once and then forgotten.  Each outcome is
\* <<n, primary error code, command table>>.
syscall_gdrom_check_command(h) ==
    CASE cmds[h] = "none" ->
            {<<CD_CMD_NOT_FOUND, e, cmds>> : e \in Err1Vals}
      [] cmds[h] \in {"processing", "aborting"} ->
            {<<CD_CMD_PROCESSING, 0, cmds>>, <<CD_CMD_BUSY, 0, cmds>>}
      [] OTHER ->
            {<<nn, e, [cmds EXCEPT ![h] = "none"]>> :
                nn \in {CD_CMD_COMPLETED, CD_CMD_STREAMING, CD_CMD_FAILED},
                e \in Err1Vals}

\* syscall_gdrom_abort_command: tries to abort handle h.  On success (0) the
\* command is marked and the next tick drops it; on failure (non-zero) the
\* command is left as it is.  Each outcome is the command table afterwards.
syscall_gdrom_abort_command(h) ==
    {cmds}
    \cup (IF cmds[h] = "processing"
          THEN {[cmds EXCEPT ![h] = "aborting"]}
          ELSE {})

\* syscall_gdrom_check_drive: the result, and the drive status and disc
\* type the firmware writes into the structure it was given.  Each outcome
\* is <<rv, structure written>>.
syscall_gdrom_check_drive ==
    {<<-1, ZeroParams>>, <<CD_CMD_BUSY, ZeroParams>>}
    \cup {<<0, [status |-> CD_STATUS_PAUSED, disc_type |-> d]>> : d \in DiscTypes}

\* ------------------------------------------------------------ the result
\* Classify with the not-found case left out: it falls into the error switch.
Classify_NoNotFound(nn, err1) ==
    IF nn = CD_CMD_COMPLETED \/ nn = CD_CMD_STREAMING THEN CD_ERR_OK
    ELSE CASE err1 = 2 -> CD_ERR_NO_DISC
           [] err1 = 6 -> CD_ERR_DISC_CHG
           [] OTHER -> CD_ERR_SYS

\* Classify handing the raw status back for a failed command.
Classify_Raw(nn, err1) ==
    IF nn = CD_CMD_COMPLETED \/ nn = CD_CMD_STREAMING THEN CD_ERR_OK
    ELSE IF nn = CD_CMD_NOT_FOUND THEN CD_ERR_NO_ACTIVE
    ELSE nn

\* cdrom_exec_cmd_timed, lines 109-124: the value returned for the final
\* status nn and the caller's own status.err1.
Classify(nn, err1) ==
    IF nn = CD_CMD_COMPLETED \/ nn = CD_CMD_STREAMING THEN CD_ERR_OK
    ELSE IF nn = CD_CMD_NOT_FOUND THEN CD_ERR_NO_ACTIVE
    ELSE CASE err1 = 2 -> CD_ERR_NO_DISC
           [] err1 = 6 -> CD_ERR_DISC_CHG
           [] OTHER -> CD_ERR_SYS

\* ------------------------------------------------------------------- Init
Init ==
    /\ mutex = NoThread
    /\ pc = [t \in Threads |-> "idle"]
    /\ op = [t \in Threads |-> "none"]
    /\ cmd = [t \in Threads |-> 0]
    /\ timeout = [t \in Threads |-> 0]
    /\ id = [t \in Threads |-> 0]
    /\ i = [t \in Threads |-> 0]
    /\ n = [t \in Threads |-> 0]
    /\ status = [t \in Threads |-> NoStatus]
    /\ begin = [t \in Threads |-> 0]
    /\ tnow = [t \in Threads |-> 0]
    /\ ret = [t \in Threads |-> 0]
    /\ hist = [t \in Threads |-> <<>>]
    /\ aborts = [t \in Threads |-> 0]
    /\ reported = [t \in Threads |-> NoStatus]
    /\ args = [t \in Threads |-> NoArgs]
    /\ asked = [t \in Threads |-> NoArgs]
    /\ out = [t \in Threads |-> NoOut]
    /\ params = [t \in Threads |-> ZeroParams]
    /\ drive = [t \in Threads |-> ZeroParams]
    /\ pushed = [t \in Threads |-> <<>>]
    /\ loc = NoLoc
    /\ runs = NoRuns
    /\ now = 0
    /\ cmds = [h \in Handles |-> "none"]

envVars == <<now, cmds>>
execLocals == <<cmd, timeout, id, i, n, status, begin, tnow, aborts, reported>>
otherLocals == <<args, asked, out, params, drive, pushed, loc, runs>>

\* The timer runs on its own.  It is read at lines 89 and 99 only, and only
\* the difference of the two readings is used: it is followed while a timed
\* poll has not expired yet.
Timing(t) ==
    /\ pc[t] \in {"ex_poll_tick", "ex_check", "ex_time", "ex_pass"}
    /\ timeout[t] # 0
    /\ now - begin[t] < timeout[t]

timer_advance ==
    /\ now < MaxClockSteps * TimeQuantum
    /\ \E t \in Threads : Timing(t)
    /\ now' = now + TimeQuantum
    /\ UNCHANGED <<mutex, pc, op, execLocals, ret, hist, otherLocals,
                   cmds>>

\* ------------------------------------------------- cdrom_exec_cmd_timed
\* Entering the function: the parameters are bound, status = {0}.
EnterExec(t, c, T) ==
    /\ pc' = [pc EXCEPT ![t] = "ex_lock"]
    /\ cmd' = [cmd EXCEPT ![t] = c]
    /\ timeout' = [timeout EXCEPT ![t] = T]
    /\ id' = [id EXCEPT ![t] = 0]
    /\ i' = [i EXCEPT ![t] = 0]
    /\ n' = [n EXCEPT ![t] = 0]
    /\ status' = [status EXCEPT ![t] = NoStatus]
    /\ begin' = [begin EXCEPT ![t] = 0]
    /\ tnow' = [tnow EXCEPT ![t] = 0]
    /\ aborts' = [aborts EXCEPT ![t] = 0]
    /\ reported' = [reported EXCEPT ![t] = NoStatus]
    /\ hist' = [hist EXCEPT ![t] = <<>>]

\* A caller above the core calls cdrom_exec_cmd_timed(c, param, T).
exec_call_timed(t) ==
    /\ pc[t] = "idle"
    /\ \E c \in Cmds, T \in Timeouts \ {0} : EnterExec(t, c, T)
    /\ op' = [op EXCEPT ![t] = "exec"]
    /\ UNCHANGED <<mutex, ret, otherLocals, envVars>>

\* cdrom_exec_cmd(c, param), and so every wrapper built on it: timeout 0.
cdrom_exec_cmd(t) ==
    /\ pc[t] = "idle"
    /\ \E c \in Cmds : EnterExec(t, c, 0)
    /\ op' = [op EXCEPT ![t] = "exec"]
    /\ UNCHANGED <<mutex, ret, otherLocals, envVars>>

\* exec_lock taking the mutex without waiting for it to be free.
exec_lock_NoWait(t) ==
    /\ pc[t] = "ex_lock"
    /\ mutex' = t
    /\ pc' = [pc EXCEPT ![t] = "ex_send"]
    /\ UNCHANGED <<op, execLocals, ret, hist, otherLocals, envVars>>

\* line 72: mutex_lock_scoped(&_g1_ata_mutex); then i = 0.
exec_lock(t) ==
    /\ pc[t] = "ex_lock"
    /\ mutex_is_free
    /\ mutex' = t
    /\ pc' = [pc EXCEPT ![t] = "ex_send"]
    /\ UNCHANGED <<op, execLocals, ret, hist, otherLocals, envVars>>

\* AfterSubmit without the test of line 84: polling starts whatever the
\* handle is.
AfterSubmit_NoIdCheck(t, h) ==
    /\ begin' = [begin EXCEPT ![t] = IF timeout[t] # 0 THEN now ELSE @]
    /\ i' = [i EXCEPT ![t] = 0]
    /\ pc' = [pc EXCEPT ![t] = "ex_poll_tick"]
    /\ UNCHANGED ret

\* What follows the submission loop (lines 84-90) for the handle h it ended
\* with: CD_ERR_SYS is returned for a submission failure; otherwise polling
\* starts, begin being set only when a timeout was given.  The loop counter
\* is not read again after the loop and is dropped then.
AfterSubmit(t, h) ==
    IF h <= 0
    THEN /\ ret' = [ret EXCEPT ![t] = CD_ERR_SYS]
         /\ pc' = [pc EXCEPT ![t] = "ex_cleanup"]
         /\ UNCHANGED <<begin, i>>
    ELSE /\ begin' = [begin EXCEPT ![t] = IF timeout[t] # 0 THEN now ELSE @]
         /\ i' = [i EXCEPT ![t] = 0]
         /\ pc' = [pc EXCEPT ![t] = "ex_poll_tick"]
         /\ UNCHANGED ret

\* exec_send with if(id > 0) break: a negative handle is retried like 0.
exec_send_RetriesNegative(t) ==
    /\ pc[t] = "ex_send"
    /\ IF i[t] < CD_CMD_RETRY_MAX
       THEN \E r \in syscall_gdrom_send_command(cmd[t]) :
              /\ id' = [id EXCEPT ![t] = r[1]]
              /\ cmds' = r[2]
              /\ hist' = [hist EXCEPT ![t] = Push(@, <<"send", r[1]>>)]
              /\ IF r[1] > 0
                 THEN AfterSubmit(t, r[1])
                 ELSE /\ pc' = [pc EXCEPT ![t] = "ex_retry_tick"]
                      /\ UNCHANGED <<ret, begin, i>>
       ELSE /\ AfterSubmit(t, id[t])
            /\ UNCHANGED <<id, cmds, hist>>
    /\ UNCHANGED <<mutex, op, cmd, timeout, n, status, tnow, aborts,
                   reported, otherLocals, now>>

\* lines 75-90: the loop test and one submission attempt; a handle other
\* than 0 ends the loop, and so does the tenth attempt.
exec_send(t) ==
    /\ pc[t] = "ex_send"
    /\ IF i[t] < CD_CMD_RETRY_MAX
       THEN \E r \in syscall_gdrom_send_command(cmd[t]) :
              /\ id' = [id EXCEPT ![t] = r[1]]
              /\ cmds' = r[2]
              /\ hist' = [hist EXCEPT ![t] = Push(@, <<"send", r[1]>>)]
              /\ IF r[1] # 0
                 THEN AfterSubmit(t, r[1])
                 ELSE /\ pc' = [pc EXCEPT ![t] = "ex_retry_tick"]
                      /\ UNCHANGED <<ret, begin, i>>
       ELSE /\ AfterSubmit(t, id[t])
            /\ UNCHANGED <<id, cmds, hist>>
    /\ UNCHANGED <<mutex, op, cmd, timeout, n, status, tnow, aborts,
                   reported, otherLocals, now>>

\* line 80: syscall_gdrom_exec_server() after a refused submission.
exec_retry_tick(t) ==
    /\ pc[t] = "ex_retry_tick"
    /\ cmds' \in syscall_gdrom_exec_server
    /\ hist' = [hist EXCEPT ![t] = Push(@, <<"tick", 0>>)]
    /\ pc' = [pc EXCEPT ![t] = "ex_retry_pass"]
    /\ UNCHANGED <<mutex, op, execLocals, ret, otherLocals, now>>

\* lines 81 and 75: thd_pass(), then ++i.
exec_retry_pass(t) ==
    /\ pc[t] = "ex_retry_pass"
    /\ i' = [i EXCEPT ![t] = @ + 1]
    /\ pc' = [pc EXCEPT ![t] = "ex_send"]
    /\ UNCHANGED <<mutex, op, cmd, timeout, id, n, status, begin, tnow, aborts,
                   reported, ret, hist, otherLocals, envVars>>

\* line 92: syscall_gdrom_exec_server() of the poll loop.
exec_poll_tick(t) ==
    /\ pc[t] = "ex_poll_tick"
    /\ cmds' \in syscall_gdrom_exec_server
    /\ hist' = [hist EXCEPT ![t] = Push(@, <<"tick", 0>>)]
    /\ pc' = [pc EXCEPT ![t] = "ex_check"]
    /\ UNCHANGED <<mutex, op, execLocals, ret, otherLocals, now>>

\* exec_check without the if(timeout) of line 98: the timer is read after
\* every non-terminal check.
exec_check_AlwaysTimed(t) ==
    /\ pc[t] = "ex_check"
    /\ \E r \in syscall_gdrom_check_command(id[t]) :
          /\ n' = [n EXCEPT ![t] = r[1]]
          /\ reported' = [reported EXCEPT ![t] = [err1 |-> r[2]]]
          /\ cmds' = r[3]
          /\ IF r[1] # CD_CMD_PROCESSING /\ r[1] # CD_CMD_BUSY
             THEN /\ ret' = [ret EXCEPT ![t] = Classify(r[1], status[t].err1)]
                  /\ pc' = [pc EXCEPT ![t] = "ex_cleanup"]
             ELSE /\ pc' = [pc EXCEPT ![t] = "ex_time"]
                  /\ UNCHANGED ret
    /\ status' = status
    /\ hist' = [hist EXCEPT ![t] = Push(@, <<"check", id[t]>>)]
    /\ UNCHANGED <<mutex, op, cmd, timeout, id, i, begin, tnow, aborts,
                   otherLocals, now>>

\* exec_check sending the command again, on the caller's behalf, when the
\* status check reports a failure.
exec_check_Resubmits(t) ==
    /\ pc[t] = "ex_check"
    /\ \E r \in syscall_gdrom_check_command(id[t]) :
          /\ n' = [n EXCEPT ![t] = r[1]]
          /\ reported' = [reported EXCEPT ![t] = [err1 |-> r[2]]]
          /\ cmds' = r[3]
          /\ IF r[1] = CD_CMD_FAILED
             THEN /\ pc' = [pc EXCEPT ![t] = "ex_send"]
                  /\ UNCHANGED ret
             ELSE IF r[1] # CD_CMD_PROCESSING /\ r[1] # CD_CMD_BUSY
             THEN /\ ret' = [ret EXCEPT ![t] = Classify(r[1], status[t].err1)]
                  /\ pc' = [pc EXCEPT ![t] = "ex_cleanup"]
             ELSE /\ pc' = [pc EXCEPT ![t] =
                              IF timeout[t] # 0 THEN "ex_time" ELSE "ex_pass"]
                  /\ UNCHANGED ret
    /\ status' = status
    /\ hist' = [hist EXCEPT ![t] = Push(@, <<"check", id[t]>>)]
    /\ UNCHANGED <<mutex, op, cmd, timeout, id, i, begin, tnow, aborts,
                   otherLocals, now>>

\* exec_check looking at the timer before the status: with a timeout given
\* and used up, a terminal status goes to the timeout path too.
exec_check_TimeoutFirst(t) ==
    /\ pc[t] = "ex_check"
    /\ \E r \in syscall_gdrom_check_command(id[t]) :
          /\ n' = [n EXCEPT ![t] = r[1]]
          /\ reported' = [reported EXCEPT ![t] = [err1 |-> r[2]]]
          /\ cmds' = r[3]
          /\ IF timeout[t] # 0 /\ now - begin[t] >= timeout[t]
             THEN /\ pc' = [pc EXCEPT ![t] = "ex_time"]
                  /\ UNCHANGED ret
             ELSE IF r[1] # CD_CMD_PROCESSING /\ r[1] # CD_CMD_BUSY
             THEN /\ ret' = [ret EXCEPT ![t] = Classify(r[1], status[t].err1)]
                  /\ pc' = [pc EXCEPT ![t] = "ex_cleanup"]
             ELSE /\ pc' = [pc EXCEPT ![t] =
                              IF timeout[t] # 0 THEN "ex_time" ELSE "ex_pass"]
                  /\ UNCHANGED ret
    /\ status' = status
    /\ hist' = [hist EXCEPT ![t] = Push(@, <<"check", id[t]>>)]
    /\ UNCHANGED <<mutex, op, cmd, timeout, id, i, begin, tnow, aborts,
                   otherLocals, now>>

\* lines 93-98 and 109-124: n = syscall_gdrom_check_command(id, status).
\* The status structure is passed by value (dc/cdrom.h line 916): what the
\* processor writes goes to the callee's copy, and the caller's status stays
\* as it was.  A terminal n ends the loop and decides the return value.
exec_check(t) ==
    /\ pc[t] = "ex_check"
    /\ \E r \in syscall_gdrom_check_command(id[t]) :
          /\ n' = [n EXCEPT ![t] = r[1]]
          /\ reported' = [reported EXCEPT ![t] = [err1 |-> r[2]]]
          /\ cmds' = r[3]
          /\ IF r[1] # CD_CMD_PROCESSING /\ r[1] # CD_CMD_BUSY
             THEN /\ ret' = [ret EXCEPT ![t] = Classify(r[1], status[t].err1)]
                  /\ pc' = [pc EXCEPT ![t] = "ex_cleanup"]
             ELSE /\ pc' = [pc EXCEPT ![t] =
                              IF timeout[t] # 0 THEN "ex_time" ELSE "ex_pass"]
                  /\ UNCHANGED ret
    /\ status' = status
    /\ hist' = [hist EXCEPT ![t] = Push(@, <<"check", id[t]>>)]
    /\ UNCHANGED <<mutex, op, cmd, timeout, id, i, begin, tnow, aborts,
                   otherLocals, now>>

\* The timeout test with > for >=.
TimedOut_Strict(t, clock) == clock - begin[t] > timeout[t]

\* line 99: (timer_ms_gettime64() - begin) >= (unsigned)timeout
TimedOut(t, clock) == clock - begin[t] >= timeout[t]

\* exec_time going to the last tick and the timeout return without the
\* abort call of line 100.
exec_time_NoAbort(t) ==
    /\ pc[t] = "ex_time"
    /\ tnow' = [tnow EXCEPT ![t] = now]
    /\ pc' = [pc EXCEPT ![t] =
                IF TimedOut(t, now) THEN "ex_abort_tick" ELSE "ex_pass"]
    /\ UNCHANGED <<mutex, op, cmd, timeout, id, i, n, status, begin, aborts,
                   reported, ret, hist, otherLocals, envVars>>

\* exec_time never finding the budget used up: the poll goes on.
exec_time_NeverExpires(t) ==
    /\ pc[t] = "ex_time"
    /\ tnow' = [tnow EXCEPT ![t] = now]
    /\ pc' = [pc EXCEPT ![t] = "ex_pass"]
    /\ UNCHANGED <<mutex, op, cmd, timeout, id, i, n, status, begin, aborts,
                   reported, ret, hist, otherLocals, envVars>>

\* lines 98-99: with a timeout given, the timer is read and compared.
exec_time(t) ==
    /\ pc[t] = "ex_time"
    /\ tnow' = [tnow EXCEPT ![t] = now]
    /\ pc' = [pc EXCEPT ![t] = IF TimedOut(t, now) THEN "ex_abort" ELSE "ex_pass"]
    /\ UNCHANGED <<mutex, op, cmd, timeout, id, i, n, status, begin, aborts,
                   reported, ret, hist, otherLocals, envVars>>

\* line 100: syscall_gdrom_abort_command(id); its result is not looked at.
exec_abort(t) ==
    /\ pc[t] = "ex_abort"
    /\ cmds' \in syscall_gdrom_abort_command(id[t])
    /\ aborts' = [aborts EXCEPT ![t] = @ + 1]
    /\ hist' = [hist EXCEPT ![t] = Push(@, <<"abort", id[t]>>)]
    /\ pc' = [pc EXCEPT ![t] = "ex_abort_tick"]
    /\ UNCHANGED <<mutex, op, cmd, timeout, id, i, n, status, begin, tnow,
                   reported, ret, otherLocals, now>>

\* exec_abort_tick without the tick: the timeout is returned right after the
\* abort.
exec_abort_tick_NoTick(t) ==
    /\ pc[t] = "ex_abort_tick"
    /\ ret' = [ret EXCEPT ![t] = CD_ERR_TIMEOUT]
    /\ pc' = [pc EXCEPT ![t] = "ex_cleanup"]
    /\ UNCHANGED <<mutex, op, execLocals, hist, otherLocals, envVars>>

\* lines 101-103: one more syscall_gdrom_exec_server(), return CD_ERR_TIMEOUT.
exec_abort_tick(t) ==
    /\ pc[t] = "ex_abort_tick"
    /\ cmds' \in syscall_gdrom_exec_server
    /\ hist' = [hist EXCEPT ![t] = Push(@, <<"tick", 0>>)]
    /\ ret' = [ret EXCEPT ![t] = CD_ERR_TIMEOUT]
    /\ pc' = [pc EXCEPT ![t] = "ex_cleanup"]
    /\ UNCHANGED <<mutex, op, execLocals, otherLocals, now>>

\* exec_pass giving the mutex up for the time of the yield, as a lock held
\* across the submission only would.
exec_pass_Unlocked(t) ==
    /\ pc[t] = "ex_pass"
    /\ mutex' = mutex_unlock(t)
    /\ tnow' = [tnow EXCEPT ![t] = 0]
    /\ n' = [n EXCEPT ![t] = 0]
    /\ pc' = [pc EXCEPT ![t] = "ex_poll_tick"]
    /\ UNCHANGED <<op, cmd, timeout, id, i, status, begin, aborts,
                   reported, ret, hist, otherLocals, envVars>>

\* exec_pass coming back to the status check itself, the tick of line 92
\* being made once before the loop only.
exec_pass_NoTick(t) ==
    /\ pc[t] = "ex_pass"
    /\ tnow' = [tnow EXCEPT ![t] = 0]
    /\ n' = [n EXCEPT ![t] = 0]
    /\ pc' = [pc EXCEPT ![t] = "ex_check"]
    /\ UNCHANGED <<mutex, op, cmd, timeout, id, i, status, begin, aborts,
                   reported, ret, hist, otherLocals, envVars>>

\* line 106: thd_pass() of the poll loop.  The status and the timer value
\* of this iteration are not read again: the next one overwrites them.
exec_pass(t) ==
    /\ pc[t] = "ex_pass"
    /\ tnow' = [tnow EXCEPT ![t] = 0]
    /\ n' = [n EXCEPT ![t] = 0]
    /\ pc' = [pc EXCEPT ![t] = "ex_poll_tick"]
    /\ UNCHANGED <<mutex, op, cmd, timeout, id, i, status, begin, aborts,
                   reported, ret, hist, otherLocals, envVars>>

\* exec_return leaving by the submission-failure path without unlocking, as
\* an early return past a hand-written unlock would.
exec_return_NoUnlockOnSys(t) ==
    /\ pc[t] = "ex_cleanup"
    /\ mutex' = IF ret[t] = CD_ERR_SYS /\ id[t] <= 0 THEN mutex ELSE mutex_unlock(t)
    /\ pc' = [pc EXCEPT ![t] = IF op[t] = "exec" THEN "idle" ELSE "re_loop"]
    /\ op' = [op EXCEPT ![t] = IF @ = "exec" THEN "none" ELSE @]
    /\ cmd' = [cmd EXCEPT ![t] = 0]
    /\ timeout' = [timeout EXCEPT ![t] = 0]
    /\ id' = [id EXCEPT ![t] = 0]
    /\ i' = [i EXCEPT ![t] = 0]
    /\ n' = [n EXCEPT ![t] = 0]
    /\ status' = [status EXCEPT ![t] = NoStatus]
    /\ begin' = [begin EXCEPT ![t] = 0]
    /\ tnow' = [tnow EXCEPT ![t] = 0]
    /\ aborts' = [aborts EXCEPT ![t] = 0]
    /\ reported' = [reported EXCEPT ![t] = NoStatus]
    /\ hist' = [hist EXCEPT ![t] = <<>>]
    /\ ret' = [ret EXCEPT ![t] = IF op[t] = "exec" THEN 0 ELSE @]
    /\ UNCHANGED <<otherLocals, envVars>>

\* The return itself: the scope of mutex_lock_scoped ends, which unlocks the
\* mutex; the locals die; control is back in the caller with the value ret.
\* A caller outside the core takes the value and is not followed further.
exec_return(t) ==
    /\ pc[t] = "ex_cleanup"
    /\ mutex' = mutex_unlock(t)
    /\ pc' = [pc EXCEPT ![t] = IF op[t] = "exec" THEN "idle" ELSE "re_loop"]
    /\ op' = [op EXCEPT ![t] = IF @ = "exec" THEN "none" ELSE @]
    /\ cmd' = [cmd EXCEPT ![t] = 0]
    /\ timeout' = [timeout EXCEPT ![t] = 0]
    /\ id' = [id EXCEPT ![t] = 0]
    /\ i' = [i EXCEPT ![t] = 0]
    /\ n' = [n EXCEPT ![t] = 0]
    /\ status' = [status EXCEPT ![t] = NoStatus]
    /\ begin' = [begin EXCEPT ![t] = 0]
    /\ tnow' = [tnow EXCEPT ![t] = 0]
    /\ aborts' = [aborts EXCEPT ![t] = 0]
    /\ reported' = [reported EXCEPT ![t] = NoStatus]
    /\ hist' = [hist EXCEPT ![t] = <<>>]
    /\ ret' = [ret EXCEPT ![t] = IF op[t] = "exec" THEN 0 ELSE @]
    /\ UNCHANGED <<otherLocals, envVars>>

cdrom_exec_cmd_timed(t) ==
    \/ exec_lock(t)
    \/ exec_send(t)
    \/ exec_retry_tick(t)
    \/ exec_retry_pass(t)
    \/ exec_poll_tick(t)
    \/ exec_check(t)
    \/ exec_time(t)
    \/ exec_abort(t)
    \/ exec_abort_tick(t)
    \/ exec_pass(t)
    \/ exec_return(t)

\* ------------------------------------------------------ cdrom_get_status
\* A caller asks for the drive status, both pointers given.
get_status_call(t) ==
    /\ pc[t] = "idle"
    /\ pc' = [pc EXCEPT ![t] = "gs_lock"]
    /\ op' = [op EXCEPT ![t] = "get_status"]
    /\ ret' = [ret EXCEPT ![t] = CD_ERR_OK]
    /\ params' = [params EXCEPT ![t] = ZeroParams]
    /\ drive' = [drive EXCEPT ![t] = ZeroParams]
    /\ out' = [out EXCEPT ![t] = NoOut]
    /\ UNCHANGED <<pushed, loc, runs, mutex, execLocals, hist, args, asked,
                   envVars>>

\* A status query that goes on to the drive even when the gate was refused.
get_status_lock_Barges(t) ==
    /\ pc[t] = "gs_lock"
    /\ mutex' = mutex_lock_irqsafe(t)[2]
    /\ pc' = [pc EXCEPT ![t] = "gs_check"]
    /\ UNCHANGED <<op, execLocals, ret, hist, otherLocals, envVars>>

\* lines 135-137: if(mutex_lock_irqsafe(&_g1_ata_mutex)) return -1;
get_status_lock(t) ==
    /\ pc[t] = "gs_lock"
    /\ LET r == mutex_lock_irqsafe(t)
       IN  /\ mutex' = r[2]
           /\ IF r[1] # 0
              THEN /\ ret' = [ret EXCEPT ![t] = -1]
                   /\ pc' = [pc EXCEPT ![t] = "gs_ret"]
              ELSE /\ pc' = [pc EXCEPT ![t] = "gs_check"]
                   /\ UNCHANGED ret
    /\ UNCHANGED <<op, execLocals, hist, otherLocals, envVars>>

\* lines 140-145: rv = syscall_gdrom_check_drive(params).  The structure is
\* passed by value (dc/cdrom.h line 825): the caller's params stays {0}.
get_status_check(t) ==
    /\ pc[t] = "gs_check"
    /\ \E r \in syscall_gdrom_check_drive :
          /\ ret' = [ret EXCEPT ![t] = r[1]]
          /\ drive' = [drive EXCEPT ![t] = r[2]]
          /\ pc' = [pc EXCEPT ![t] =
                      IF r[1] # CD_CMD_BUSY THEN "gs_unlock" ELSE "gs_pass"]
    /\ params' = params
    /\ UNCHANGED <<pushed, loc, runs, mutex, op, execLocals, hist, args, asked,
                   out, envVars>>

\* get_status_pass giving the mutex up for the time of the yield.
get_status_pass_Unlocked(t) ==
    /\ pc[t] = "gs_pass"
    /\ mutex' = mutex_unlock(t)
    /\ pc' = [pc EXCEPT ![t] = "gs_check"]
    /\ UNCHANGED <<op, execLocals, ret, hist, otherLocals, envVars>>

\* line 146: thd_pass() while the drive is busy.
get_status_pass(t) ==
    /\ pc[t] = "gs_pass"
    /\ pc' = [pc EXCEPT ![t] = "gs_check"]
    /\ UNCHANGED <<mutex, op, execLocals, ret, hist, otherLocals, envVars>>

\* line 149: mutex_unlock(&_g1_ata_mutex);
get_status_unlock(t) ==
    /\ pc[t] = "gs_unlock"
    /\ mutex' = mutex_unlock(t)
    /\ pc' = [pc EXCEPT ![t] = "gs_write"]
    /\ UNCHANGED <<op, execLocals, ret, hist, otherLocals, envVars>>

\* lines 151-164: the outputs, from params when rv >= 0 and -1 otherwise.
get_status_write(t) ==
    /\ pc[t] = "gs_write"
    /\ out' = [out EXCEPT ![t] =
                 IF ret[t] >= 0
                 THEN [status |-> params[t].status, disc_type |-> params[t].disc_type]
                 ELSE [status |-> -1, disc_type |-> -1]]
    /\ pc' = [pc EXCEPT ![t] = "gs_ret"]
    /\ UNCHANGED <<pushed, loc, runs, mutex, op, execLocals, ret, hist, args,
                   asked, params, drive, envVars>>

\* lines 137 and 166: the return to the caller, who takes rv and the outputs.
get_status_return(t) ==
    /\ pc[t] = "gs_ret"
    /\ pc' = [pc EXCEPT ![t] = "idle"]
    /\ op' = [op EXCEPT ![t] = "none"]
    /\ ret' = [ret EXCEPT ![t] = 0]
    /\ out' = [out EXCEPT ![t] = NoOut]
    /\ drive' = [drive EXCEPT ![t] = ZeroParams]
    /\ UNCHANGED <<pushed, loc, runs, mutex, execLocals, hist, args, asked,
                   params,
                   envVars>>

cdrom_get_status(t) ==
    \/ get_status_lock(t)
    \/ get_status_check(t)
    \/ get_status_pass(t)
    \/ get_status_unlock(t)
    \/ get_status_write(t)
    \/ get_status_return(t)

\* ------------------------------------------------- cdrom_change_datatype
\* Resolve leaving a defaulted track type of a 2352-byte request to the disc
\* type, as it does for the other sizes.
Resolve_NoAny(a, dt) ==
    Triple(IF a.sector_part = CD_READ_DEFAULT
              THEN (IF a.sector_size = 2352
                       THEN CD_READ_WHOLE_SECTOR ELSE CD_READ_DATA_AREA)
              ELSE a.sector_part,
           IF a.track_type = CD_TRACK_TYPE_DEFAULT
              THEN (IF dt = CD_CDROM_XA
                       THEN CD_TRACK_TYPE_MODE2_FORM1
                       ELSE CD_TRACK_TYPE_MODE1)
              ELSE a.track_type,
           IF a.sector_size = -1 THEN 2048 ELSE a.sector_size)

\* Resolve without lines 199-200: a sector size of -1 is passed on.
Resolve_KeepsSize(a, dt) ==
    IF a.sector_size = 2352
    THEN Triple(IF a.sector_part = CD_READ_DEFAULT
                   THEN CD_READ_WHOLE_SECTOR ELSE a.sector_part,
                IF a.track_type = CD_TRACK_TYPE_DEFAULT
                   THEN CD_TRACK_TYPE_ANY ELSE a.track_type,
                a.sector_size)
    ELSE Triple(IF a.sector_part = CD_READ_DEFAULT
                   THEN CD_READ_DATA_AREA ELSE a.sector_part,
                IF a.track_type = CD_TRACK_TYPE_DEFAULT
                   THEN (IF dt = CD_CDROM_XA
                            THEN CD_TRACK_TYPE_MODE2_FORM1
                            ELSE CD_TRACK_TYPE_MODE1)
                   ELSE a.track_type,
                a.sector_size)

\* Resolve reading the data area for every size other than 2352, whatever
\* sector part was asked for.
Resolve_ForcesDataArea(a, dt) ==
    IF a.sector_size = 2352
    THEN Triple(IF a.sector_part = CD_READ_DEFAULT
                   THEN CD_READ_WHOLE_SECTOR ELSE a.sector_part,
                IF a.track_type = CD_TRACK_TYPE_DEFAULT
                   THEN CD_TRACK_TYPE_ANY ELSE a.track_type,
                a.sector_size)
    ELSE Triple(CD_READ_DATA_AREA,
                IF a.track_type = CD_TRACK_TYPE_DEFAULT
                   THEN (IF dt = CD_CDROM_XA
                            THEN CD_TRACK_TYPE_MODE2_FORM1
                            ELSE CD_TRACK_TYPE_MODE1)
                   ELSE a.track_type,
                IF a.sector_size = -1 THEN 2048 ELSE a.sector_size)

\* lines 176-201: the parameters after the defaults are filled in, dt being
\* check_params.disc_type.
Resolve(a, dt) ==
    IF a.sector_size = 2352
    THEN Triple(IF a.sector_part = CD_READ_DEFAULT
                   THEN CD_READ_WHOLE_SECTOR ELSE a.sector_part,
                IF a.track_type = CD_TRACK_TYPE_DEFAULT
                   THEN CD_TRACK_TYPE_ANY ELSE a.track_type,
                a.sector_size)
    ELSE Triple(IF a.sector_part = CD_READ_DEFAULT
                   THEN CD_READ_DATA_AREA ELSE a.sector_part,
                IF a.track_type = CD_TRACK_TYPE_DEFAULT
                   THEN (IF dt = CD_CDROM_XA
                            THEN CD_TRACK_TYPE_MODE2_FORM1
                            ELSE CD_TRACK_TYPE_MODE1)
                   ELSE a.track_type,
                IF a.sector_size = -1 THEN 2048 ELSE a.sector_size)

\* lines 185-188: the drive is asked only for a defaulted track type of a
\* size other than 2352.
AsksDrive(a) == a.sector_size # 2352 /\ a.track_type = CD_TRACK_TYPE_DEFAULT

\* lines 170-172: cdrom_change_datatype is entered with the arguments a;
\* check_params = {0}.
ChangeCall(t, a) ==
    /\ args' = [args EXCEPT ![t] = a]
    /\ asked' = [asked EXCEPT ![t] = a]
    /\ pc' = [pc EXCEPT ![t] = "cd_lock"]
    /\ op' = [op EXCEPT ![t] = "change_datatype"]
    /\ params' = [params EXCEPT ![t] = ZeroParams]
    /\ UNCHANGED <<pushed, loc, runs, mutex, execLocals, ret, hist, out, drive,
                   envVars>>

\* A caller above the core calls cdrom_change_datatype.
change_datatype_call(t) ==
    /\ pc[t] = "idle"
    /\ \E a \in ChangeArgs : ChangeCall(t, a)

\* A caller passes any combination of sector part, track type and size.
change_datatype_call_any(t) ==
    /\ pc[t] = "idle"
    /\ \E a \in AllChangeArgs : ChangeCall(t, a)

\* change_datatype_lock going on without the mutex.
change_datatype_lock_NoLock(t) ==
    /\ pc[t] = "cd_lock"
    /\ pc' = [pc EXCEPT ![t] = "cd_resolve"]
    /\ UNCHANGED <<mutex, op, execLocals, ret, hist, otherLocals, envVars>>

\* line 174: mutex_lock_scoped(&_g1_ata_mutex);
change_datatype_lock(t) ==
    /\ pc[t] = "cd_lock"
    /\ mutex_is_free
    /\ mutex' = t
    /\ pc' = [pc EXCEPT ![t] = "cd_resolve"]
    /\ UNCHANGED <<op, execLocals, ret, hist, otherLocals, envVars>>

\* lines 176-201.  syscall_gdrom_check_drive(check_params) takes the
\* structure by value: check_params.disc_type stays 0 whatever the drive holds.
change_datatype_resolve(t) ==
    /\ pc[t] = "cd_resolve"
    /\ IF AsksDrive(args[t])
       THEN \E r \in syscall_gdrom_check_drive :
               drive' = [drive EXCEPT ![t] = r[2]]
       ELSE UNCHANGED drive
    /\ params' = params
    /\ args' = [args EXCEPT ![t] = Resolve(@, params[t].disc_type)]
    /\ pc' = [pc EXCEPT ![t] = "cd_mode"]
    /\ UNCHANGED <<pushed, loc, runs, mutex, op, execLocals, ret, hist, asked,
                   out, envVars>>

\* change_datatype_mode turning the result of the call into a value of
\* cd_cmd_ret_t.
change_datatype_mode_Classified(t) ==
    /\ pc[t] = "cd_mode"
    /\ \E rv \in SectorModeResults :
          /\ ret' = [ret EXCEPT ![t] = IF rv = 0 THEN CD_ERR_OK ELSE CD_ERR_SYS]
          /\ pushed' = [pushed EXCEPT ![t] = Append(@, <<args[t], rv>>)]
    /\ pc' = [pc EXCEPT ![t] = "cd_cleanup"]
    /\ UNCHANGED <<mutex, op, execLocals, hist, args, asked, out, params, drive,
                   loc, runs, envVars>>

\* lines 203-208: return syscall_gdrom_sector_mode(params);
change_datatype_mode(t) ==
    /\ pc[t] = "cd_mode"
    /\ \E rv \in SectorModeResults :
          /\ ret' = [ret EXCEPT ![t] = rv]
          /\ pushed' = [pushed EXCEPT ![t] = Append(@, <<args[t], rv>>)]
    /\ pc' = [pc EXCEPT ![t] = "cd_cleanup"]
    /\ UNCHANGED <<mutex, op, execLocals, hist, args, asked, out, params, drive,
                   loc, runs, envVars>>

\* The return: the scope of mutex_lock_scoped ends and the mutex is
\* unlocked.  cdrom_reinit_ex (line 229) returns this value as its own.
change_datatype_return(t) ==
    /\ pc[t] = "cd_cleanup"
    /\ mutex' = mutex_unlock(t)
    /\ pc' = [pc EXCEPT ![t] = "idle"]
    /\ op' = [op EXCEPT ![t] = "none"]
    /\ ret' = [ret EXCEPT ![t] = 0]
    /\ args' = [args EXCEPT ![t] = NoArgs]
    /\ asked' = [asked EXCEPT ![t] = NoArgs]
    /\ drive' = [drive EXCEPT ![t] = ZeroParams]
    /\ pushed' = [pushed EXCEPT ![t] = <<>>]
    /\ UNCHANGED <<execLocals, hist, out, params, loc, runs, envVars>>

cdrom_change_datatype(t) ==
    \/ change_datatype_lock(t)
    \/ change_datatype_resolve(t)
    \/ change_datatype_mode(t)
    \/ change_datatype_return(t)

\* ------------------------------------------------------- cdrom_reinit_ex
\* cdrom_reinit_ex, and through it cdrom_reinit and cdrom_set_sector_size.
reinit_call(t) ==
    /\ pc[t] = "idle"
    /\ \E a \in ReinitArgs :
          /\ args' = [args EXCEPT ![t] = a]
          /\ asked' = [asked EXCEPT ![t] = a]
    /\ pc' = [pc EXCEPT ![t] = "re_exec"]
    /\ op' = [op EXCEPT ![t] = "reinit_ex"]
    /\ params' = [params EXCEPT ![t] = ZeroParams]
    /\ UNCHANGED <<pushed, loc, runs, mutex, execLocals, ret, hist, out, drive,
                   envVars>>

\* line 222: r = cdrom_exec_cmd_timed(CMD_INIT, NULL, 10000);
reinit_exec(t) ==
    /\ pc[t] = "re_exec"
    /\ EnterExec(t, CMD_INIT, REINIT_TIMEOUT)
    /\ UNCHANGED <<mutex, op, ret, otherLocals, envVars>>

\* reinit_loop without CD_ERR_TIMEOUT in the test of line 225.
reinit_loop_TimeoutNegotiates(t) ==
    /\ pc[t] = "re_loop"
    /\ pc' = [pc EXCEPT ![t] =
                IF ret[t] = CD_ERR_DISC_CHG THEN "re_exec"
                ELSE IF ret[t] \in {CD_ERR_NO_DISC, CD_ERR_SYS}
                     THEN "re_ret"
                     ELSE "cd_lock"]
    /\ UNCHANGED <<mutex, op, execLocals, ret, hist, otherLocals, envVars>>

\* lines 223-229: again on CD_ERR_DISC_CHG; r itself on no disc, system
\* error and timeout; otherwise on to cdrom_change_datatype.  ret[t] is r
\* until cdrom_change_datatype has its own return value.
reinit_loop(t) ==
    /\ pc[t] = "re_loop"
    /\ pc' = [pc EXCEPT ![t] =
                IF ret[t] = CD_ERR_DISC_CHG THEN "re_exec"
                ELSE IF ret[t] \in {CD_ERR_NO_DISC, CD_ERR_SYS, CD_ERR_TIMEOUT}
                     THEN "re_ret"
                     ELSE "cd_lock"]
    /\ UNCHANGED <<mutex, op, execLocals, ret, hist, otherLocals, envVars>>

\* line 226: return r;
reinit_return(t) ==
    /\ pc[t] = "re_ret"
    /\ pc' = [pc EXCEPT ![t] = "idle"]
    /\ op' = [op EXCEPT ![t] = "none"]
    /\ ret' = [ret EXCEPT ![t] = 0]
    /\ args' = [args EXCEPT ![t] = NoArgs]
    /\ asked' = [asked EXCEPT ![t] = NoArgs]
    /\ UNCHANGED <<pushed, loc, runs, mutex, execLocals, hist, out, params, drive,
                   envVars>>

cdrom_reinit_ex(t) ==
    \/ reinit_exec(t)
    \/ reinit_loop(t)
    \/ reinit_return(t)

\* ------------------------------------------------------------ cdrom_init
init_call(t) ==
    /\ pc[t] = "idle"
    /\ pc' = [pc EXCEPT ![t] = "in_lock"]
    /\ op' = [op EXCEPT ![t] = "init"]
    /\ UNCHANGED <<mutex, execLocals, ret, hist, otherLocals, envVars>>

\* line 344: mutex_lock(&_g1_ata_mutex);
init_lock(t) ==
    /\ pc[t] = "in_lock"
    /\ mutex_is_free
    /\ mutex' = t
    /\ pc' = [pc EXCEPT ![t] = "in_reset"]
    /\ UNCHANGED <<op, execLocals, ret, hist, otherLocals, envVars>>

\* lines 346-366: the drive is reactivated, then syscall_gdrom_reset() and
\* syscall_gdrom_init().  Commands in the processor's table are left alone.
init_reset(t) ==
    /\ pc[t] = "in_reset"
    /\ pc' = [pc EXCEPT ![t] = "in_unlock"]
    /\ UNCHANGED <<mutex, op, execLocals, ret, hist, otherLocals, envVars>>

\* init_unlock calling cdrom_reinit() while the mutex is still held.
init_unlock_StillLocked(t) ==
    /\ pc[t] = "in_unlock"
    /\ args' = [args EXCEPT ![t] =
                  Triple(CD_READ_DEFAULT, CD_TRACK_TYPE_DEFAULT, -1)]
    /\ asked' = [asked EXCEPT ![t] =
                   Triple(CD_READ_DEFAULT, CD_TRACK_TYPE_DEFAULT, -1)]
    /\ pc' = [pc EXCEPT ![t] = "re_exec"]
    /\ op' = [op EXCEPT ![t] = "reinit_ex"]
    /\ UNCHANGED <<pushed, loc, runs, mutex, execLocals, ret, hist, out, params,
                   drive, envVars>>

\* lines 367-369: mutex_unlock(&_g1_ata_mutex); then cdrom_reinit(), which is
\* cdrom_reinit_ex(CD_READ_DEFAULT, CD_TRACK_TYPE_DEFAULT, -1); its value is
\* not used.
init_unlock(t) ==
    /\ pc[t] = "in_unlock"
    /\ mutex' = mutex_unlock(t)
    /\ args' = [args EXCEPT ![t] =
                  Triple(CD_READ_DEFAULT, CD_TRACK_TYPE_DEFAULT, -1)]
    /\ asked' = [asked EXCEPT ![t] =
                   Triple(CD_READ_DEFAULT, CD_TRACK_TYPE_DEFAULT, -1)]
    /\ pc' = [pc EXCEPT ![t] = "re_exec"]
    /\ op' = [op EXCEPT ![t] = "reinit_ex"]
    /\ UNCHANGED <<pushed, loc, runs, execLocals, ret, hist, out, params, drive,
                   envVars>>

cdrom_init(t) ==
    \/ init_lock(t)
    \/ init_reset(t)
    \/ init_unlock(t)

Next ==
    \/ timer_advance
    \/ \E t \in Threads :
          \/ exec_call_timed(t)
          \/ cdrom_exec_cmd(t)
          \/ cdrom_exec_cmd_timed(t)
          \/ get_status_call(t)
          \/ cdrom_get_status(t)
          \/ change_datatype_call(t)
          \/ cdrom_change_datatype(t)
          \/ reinit_call(t)
          \/ cdrom_reinit_ex(t)
          \/ init_call(t)
          \/ cdrom_init(t)

Spec == Init /\ [][Next]_vars

\* The same program under the scheduling the kernel gives it: the timer keeps
\* counting, and a thread that is inside cdrom_exec_cmd_timed or
\* cdrom_get_status and can take its next step is run again (thd_pass()
\* yields the processor and the scheduler comes back to the thread).
SpecFair ==
    /\ Init
    /\ [][Next]_vars
    /\ WF_vars(timer_advance)
    /\ \A t \in Threads : WF_vars(cdrom_exec_cmd_timed(t))
    /\ \A t \in Threads : WF_vars(cdrom_get_status(t))

\* ----------------------------------------------- cdrom_locate_data_track
\* dc/cdrom.h lines 76-98: the fields of a 32-bit TOC word.
TOC_LBA(w) == w % 16777216
TOC_CTRL(w) == (w \div 268435456) % 16
TOC_TRACK(w) == (w \div 65536) % 256

\* i - 1 and i-- on a uint32_t (line 286): 0 wraps to 4294967295, for which
\* the largest integer TLC has stands here; all that is read of it is that
\* it is no index of entry[] and not below any track number.
UINT32_WRAPPED == 2147483647
Dec32(x) == IF x = 0 THEN UINT32_WRAPPED ELSE x - 1

\* A TOC word with control nibble c, address nibble a and 24 low bits f.
TocWord(c, a, f) == c * 268435456 + a * 16777216 + f
\* Entries the firmware may have filled in: an audio track, two data tracks
\* and a track whose control nibble has the data bit among others.
EntryWords == {TocWord(0, 1, 100), TocWord(4, 1, 200), TocWord(4, 1, 300),
               TocWord(6, 1, 400)}
\* What all entries past the first MaxTracks hold.
FillWords == {0, TocWord(4, 1, 900)}
\* Track numbers found in toc->first and toc->last.
TrackNumbers == {0, 1, 2, MaxTracks, 99, 100, 150}
\* cd_toc_t: entry[0..98], first and last (track number in bits 16-23).
Tocs ==
    {[first |-> TocWord(4, 1, f * 65536),
      last  |-> TocWord(4, 1, l * 65536),
      entry |-> [k \in 0..98 |-> IF k < MaxTracks THEN e[k + 1] ELSE w]] :
        f \in TrackNumbers, l \in TrackNumbers,
        e \in [1..MaxTracks -> EntryWords], w \in FillWords}

\* Everything but the state of cdrom_locate_data_track.
coreVars == <<mutex, pc, op, execLocals, ret, hist, args, asked, out, params,
              drive, pushed, envVars>>

\* toc->entry[k] as the program reads it: outside the array it reads
\* whatever lies there.
ReadEntry(toc, k) == IF k \in 0..98 THEN {toc.entry[k]} ELSE EntryWords

\* A caller passes a TOC to cdrom_locate_data_track.
locate_call ==
    /\ loc.pc = "none"
    /\ \E toc \in Tocs :
          loc' = [pc |-> "lt_decode", toc |-> toc, first |-> 0, last |-> 0,
                  i |-> 0, result |-> 0, read |-> {}]
    /\ UNCHANGED <<coreVars, runs>>

\* locate_decode without the first < 1 of line 291.
locate_decode_NoFirstTest ==
    /\ loc.pc = "lt_decode"
    /\ LET first == TOC_TRACK(loc.toc.first)
           last == TOC_TRACK(loc.toc.last)
       IN  loc' = IF last > 99 \/ first > last
                  THEN [loc EXCEPT !.first = first, !.last = last,
                                   !.result = 0, !.pc = "lt_done"]
                  ELSE [loc EXCEPT !.first = first, !.last = last,
                                   !.i = last, !.pc = "lt_scan"]
    /\ UNCHANGED <<coreVars, runs>>

\* lines 288-294: first and last are decoded and tested; i = last.
locate_decode ==
    /\ loc.pc = "lt_decode"
    /\ LET first == TOC_TRACK(loc.toc.first)
           last == TOC_TRACK(loc.toc.last)
       IN  loc' = IF first < 1 \/ last > 99 \/ first > last
                  THEN [loc EXCEPT !.first = first, !.last = last,
                                   !.result = 0, !.pc = "lt_done"]
                  ELSE [loc EXCEPT !.first = first, !.last = last,
                                   !.i = last, !.pc = "lt_scan"]
    /\ UNCHANGED <<coreVars, runs>>

\* locate_scan taking every entry with the data bit set for a data track.
locate_scan_DataBit ==
    /\ loc.pc = "lt_scan"
    /\ IF loc.i >= loc.first
       THEN LET k == Dec32(loc.i)
            IN  \E w \in ReadEntry(loc.toc, k) :
                   loc' = IF TOC_CTRL(w) >= 4
                          THEN [loc EXCEPT !.read = @ \cup {k},
                                           !.result = TOC_LBA(w),
                                           !.pc = "lt_done"]
                          ELSE [loc EXCEPT !.read = @ \cup {k},
                                           !.i = Dec32(@)]
       ELSE loc' = [loc EXCEPT !.result = 0, !.pc = "lt_done"]
    /\ UNCHANGED <<coreVars, runs>>

\* lines 294-300: the loop test and one iteration, i being a uint32_t; 0 is
\* returned when the loop ends.
locate_scan ==
    /\ loc.pc = "lt_scan"
    /\ IF loc.i >= loc.first
       THEN LET k == Dec32(loc.i)
            IN  \E w \in ReadEntry(loc.toc, k) :
                   loc' = IF TOC_CTRL(w) = 4
                          THEN [loc EXCEPT !.read = @ \cup {k},
                                           !.result = TOC_LBA(w),
                                           !.pc = "lt_done"]
                          ELSE [loc EXCEPT !.read = @ \cup {k},
                                           !.i = Dec32(@)]
       ELSE loc' = [loc EXCEPT !.result = 0, !.pc = "lt_done"]
    /\ UNCHANGED <<coreVars, runs>>

\* The caller has the result.
locate_return ==
    /\ loc.pc = "lt_done"
    /\ loc' = NoLoc
    /\ UNCHANGED <<coreVars, runs>>

cdrom_locate_data_track ==
    \/ locate_decode
    \/ locate_scan
    \/ locate_return

NextToc ==
    \/ locate_call
    \/ cdrom_locate_data_track

SpecToc == Init /\ [][NextToc]_vars

\* ------------------------------------ two cycles with the same statuses
\* dc/cdrom.h lines 891-896: cd_cmd_chk_status_t, all four fields.
ChkStatus(e1, e2, sz, at) == [err1 |-> e1, err2 |-> e2, size |-> sz, ata |-> at]
\* cdrom.c line 66: cd_cmd_chk_status_t status = {0};
ZeroChkStatus == ChkStatus(0, 0, 0, 0)
\* What the processor may write besides err1: <<err2, size, ata>>.
ExtVals == {<<e2, sz, at>> : e2 \in {0, 1}, sz \in {0, 2048}, at \in {0, 4}}
\* What syscall_gdrom_check_command returns.
CheckResults == {CD_CMD_FAILED, CD_CMD_NOT_FOUND, CD_CMD_PROCESSING,
                 CD_CMD_COMPLETED, CD_CMD_STREAMING, CD_CMD_BUSY}
\* The two cycles.
Runs == {1, 2}

\* Two cycles are past their submission: each has its own status = {0}.
status_pair_call ==
    /\ runs.pc = "none"
    /\ \E T \in Timeouts :
          runs' = [pc |-> "rn_check", timeout |-> T, n |-> 0,
                   own |-> [k \in Runs |-> ZeroChkStatus],
                   rep |-> [k \in Runs |-> ZeroChkStatus],
                   ret |-> [k \in Runs |-> 0]]
    /\ UNCHANGED <<coreVars, loc>>

\* status_pair_check with the test of err2 (lines 122-123) made first, on
\* the status the processor wrote.
status_pair_check_Err2Decides ==
    /\ runs.pc = "rn_check"
    /\ \E nn \in CheckResults, e1 \in Err1Vals, x \in [Runs -> ExtVals] :
          LET wrote == [k \in Runs |-> ChkStatus(e1, x[k][1], x[k][2], x[k][3])]
          IN  runs' = IF nn # CD_CMD_PROCESSING /\ nn # CD_CMD_BUSY
                      THEN [runs EXCEPT
                              !.n = nn, !.rep = wrote, !.pc = "rn_done",
                              !.ret = [k \in Runs |->
                                         IF wrote[k].err2 # 0 THEN CD_ERR_SYS
                                         ELSE Classify(nn, runs.own[k].err1)]]
                      ELSE [runs EXCEPT !.n = nn, !.rep = wrote]
    /\ UNCHANGED <<coreVars, loc>>

\* lines 93-97 and 109-124 in both cycles: the processor answers the two
\* checks with the same n and the same err1, and with err2, size and ata of
\* its choice for each.  The structure is passed by value (dc/cdrom.h line
\* 916), so each cycle's own status stays as it was; a terminal n is
\* classified, the statements of lines 122-123 coming after a switch whose
\* every case returns.
status_pair_check ==
    /\ runs.pc = "rn_check"
    /\ \E nn \in CheckResults, e1 \in Err1Vals, x \in [Runs -> ExtVals] :
          LET wrote == [k \in Runs |-> ChkStatus(e1, x[k][1], x[k][2], x[k][3])]
          IN  runs' = IF nn # CD_CMD_PROCESSING /\ nn # CD_CMD_BUSY
                      THEN [runs EXCEPT
                              !.n = nn, !.rep = wrote, !.pc = "rn_done",
                              !.ret = [k \in Runs |->
                                         Classify(nn, runs.own[k].err1)]]
                      ELSE [runs EXCEPT !.n = nn, !.rep = wrote]
    /\ UNCHANGED <<coreVars, loc>>

\* lines 98-103 in both cycles: a timeout was given and has run out after a
\* check that was not terminal.
status_pair_timeout ==
    /\ runs.pc = "rn_check"
    /\ runs.timeout # 0
    /\ runs.n \in {CD_CMD_PROCESSING, CD_CMD_BUSY}
    /\ runs' = [runs EXCEPT !.pc = "rn_done",
                            !.ret = [k \in Runs |-> CD_ERR_TIMEOUT]]
    /\ UNCHANGED <<coreVars, loc>>

\* Both cycles have returned.
status_pair_return ==
    /\ runs.pc = "rn_done"
    /\ runs' = NoRuns
    /\ UNCHANGED <<coreVars, loc>>

NextStatus ==
    \/ status_pair_call
    \/ status_pair_check
    \/ status_pair_timeout
    \/ status_pair_return

SpecStatus == Init /\ [][NextStatus]_vars

\* cdrom_change_datatype alone, called with every combination of arguments.
NextDatatype ==
    \E t \in Threads :
        \/ change_datatype_call_any(t)
        \/ cdrom_change_datatype(t)

SpecDatatype == Init /\ [][NextDatatype]_vars

\* ============================================================ properties
\* Thread t is inside a submit + poll + classify cycle: past line 72 and not
\* yet back in its caller.
CyclePcs == {"ex_send", "ex_retry_tick", "ex_retry_pass", "ex_poll_tick",
             "ex_check", "ex_time", "ex_abort", "ex_abort_tick", "ex_pass",
             "ex_cleanup"}
InCycle(t) == pc[t] \in CyclePcs
\* The statements at which a thread asks for the mutex.
LockPcs == {"ex_lock", "cd_lock", "gs_lock", "in_lock"}
\* The newest firmware call of thread t's cycle.
LastCall(t) == hist[t][Len(hist[t])]
\* Thread t's cycle has its return value, and it ended on a status check.
EndedOnCheck(t) ==
    /\ pc[t] = "ex_cleanup"
    /\ hist[t] # <<>>
    /\ LastCall(t)[1] = "check"
\* Thread t's cycle has its return value, its submission was accepted, and
\* no status check of it was terminal.
EndedWithoutTerminal(t) ==
    /\ pc[t] = "ex_cleanup"
    /\ id[t] > 0
    /\ n[t] \in {CD_CMD_PROCESSING, CD_CMD_BUSY}

\* C1: at most one thread is inside a command cycle at any instant; a thread
\* at a submission (or anywhere else in its cycle) finds every other thread
\* outside a cycle.
C1_OneCycleAtATime ==
    \A t \in Threads, u \in Threads : (t # u /\ InCycle(t)) => ~InCycle(u)

\* C1 witness: one thread is polling while the other waits at line 72.
C1_Witness ==
    \E t \in Threads, u \in Threads :
        /\ pc[t] = "ex_check"
        /\ pc[u] = "ex_lock"

\* C2: at most one accepted command is non-terminal in the command
\* processor at any instant.
C2_AtMostOneInFlight == Cardinality(InFlight(cmds)) <= 1

\* C3: the thread inside a command cycle owns the mutex at every statement
\* of it, from the first submission attempt, across every yield, until the
\* return value is determined.
C3_GateHeldThroughCycle == \A t \in Threads : InCycle(t) => mutex = t

\* C3 witness: a thread that has already yielded in the poll loop is about
\* to tick again, owning the mutex another thread is waiting for.
C3_Witness ==
    \E t \in Threads, u \in Threads :
        /\ pc[t] = "ex_poll_tick"
        /\ Len(hist[t]) >= 3
        /\ LastCall(t)[1] = "check"
        /\ mutex = t
        /\ pc[u] = "ex_lock"

\* C4: a thread that is back from cdrom_exec_cmd_timed or
\* cdrom_change_datatype, or past the unlock of cdrom_get_status, on whatever
\* path, does not own the mutex.
ReturnedPcs == {"idle", "re_loop", "re_ret", "gs_write", "gs_ret"}
C4_ReleasedOnEveryExit == \A t \in Threads : pc[t] \in ReturnedPcs => mutex # t

\* C4 witness: one thread is back from a cycle that failed to submit, the
\* other from a status query that had the mutex, and the mutex is free.
C4_Witness ==
    \E t \in Threads, u \in Threads :
        /\ pc[t] = "re_loop" /\ ret[t] = CD_ERR_SYS
        /\ pc[u] = "gs_ret" /\ ret[u] = 0
        /\ mutex = NoThread

\* C5: no thread asks for the mutex while it owns it.
C5_NoNestedAcquire == \A t \in Threads : pc[t] \in LockPcs => mutex # t

\* C5 witness: inside cdrom_reinit_ex, after the CMD_INIT cycle, a thread
\* asks for the mutex again in cdrom_change_datatype.
C5_Witness ==
    \E t \in Threads :
        /\ pc[t] = "cd_lock"
        /\ op[t] = "reinit_ex"
        /\ mutex # t

\* C6: a cycle that ended on a completed or streaming status returns
\* CD_ERR_OK, one that ended on not-found returns CD_ERR_NO_ACTIVE, whatever
\* the processor put into the extended status.
C6_SuccessAndNotFound ==
    \A t \in Threads :
        EndedOnCheck(t) =>
            /\ n[t] \in {CD_CMD_COMPLETED, CD_CMD_STREAMING} => ret[t] = CD_ERR_OK
            /\ n[t] = CD_CMD_NOT_FOUND => ret[t] = CD_ERR_NO_ACTIVE

\* C6 witness: a cycle ended on completed with a primary error code of 2
\* reported, and its return value is CD_ERR_OK.
C6_Witness ==
    \E t \in Threads :
        /\ EndedOnCheck(t)
        /\ n[t] = CD_CMD_COMPLETED
        /\ reported[t].err1 = 2
        /\ ret[t] = CD_ERR_OK

\* C7: a cycle that ended on a failed status returns CD_ERR_NO_DISC when the
\* primary error code the processor reported is 2, CD_ERR_DISC_CHG when it is
\* 6, and CD_ERR_SYS otherwise.
C7_FailedByPrimaryError ==
    \A t \in Threads :
        (EndedOnCheck(t) /\ n[t] = CD_CMD_FAILED) =>
            ret[t] = CASE reported[t].err1 = 2 -> CD_ERR_NO_DISC
                       [] reported[t].err1 = 6 -> CD_ERR_DISC_CHG
                       [] OTHER -> CD_ERR_SYS

\* C8: every value cdrom_exec_cmd_timed returns is one of the seven values
\* of cd_cmd_ret_t.
Taxonomy == {CD_ERR_OK, CD_ERR_NO_DISC, CD_ERR_DISC_CHG, CD_ERR_SYS,
             CD_ERR_ABORTED, CD_ERR_NO_ACTIVE, CD_ERR_TIMEOUT}
C8_ClosedTaxonomy == \A t \in Threads : pc[t] = "ex_cleanup" => ret[t] \in Taxonomy

\* C8 witness: a cycle ended on a failed status and has its return value.
C8_Witness ==
    \E t \in Threads :
        /\ EndedOnCheck(t)
        /\ n[t] = CD_CMD_FAILED
        /\ ret[t] = CD_ERR_SYS

\* C9: a timed cycle whose submission was accepted and whose status never
\* became terminal returns CD_ERR_TIMEOUT, and a cycle that returns
\* CD_ERR_TIMEOUT has made exactly one abort call, for its own handle,
\* then exactly one tick, and no firmware call after that.
C9_TimeoutAbortsOnce ==
    \A t \in Threads :
        /\ (EndedWithoutTerminal(t) /\ timeout[t] # 0) => ret[t] = CD_ERR_TIMEOUT
        /\ (pc[t] = "ex_cleanup" /\ ret[t] = CD_ERR_TIMEOUT) =>
              /\ timeout[t] # 0
              /\ aborts[t] = 1
              /\ Len(hist[t]) >= 3
              /\ hist[t][Len(hist[t]) - 2] = <<"check", id[t]>>
              /\ hist[t][Len(hist[t]) - 1] = <<"abort", id[t]>>
              /\ hist[t][Len(hist[t])] = <<"tick", 0>>

\* C9 witness: a cycle has CD_ERR_TIMEOUT as its return value.
C9_Witness ==
    \E t \in Threads :
        /\ pc[t] = "ex_cleanup"
        /\ ret[t] = CD_ERR_TIMEOUT
        /\ timeout[t] = TimeQuantum

\* C10: in a timed poll the thread yields for another iteration only when
\* the time it read at line 99 was less than the timeout after begin, and it
\* is on the abort path exactly when that time was the timeout or more after
\* begin, the status being non-terminal.
C10_TimeoutAtFirstExpiry ==
    \A t \in Threads :
        /\ (pc[t] = "ex_pass" /\ timeout[t] # 0) =>
              tnow[t] - begin[t] < timeout[t]
        /\ (pc[t] \in {"ex_abort", "ex_abort_tick"}
              \/ (pc[t] = "ex_cleanup" /\ ret[t] = CD_ERR_TIMEOUT)) =>
              /\ tnow[t] - begin[t] >= timeout[t]
              /\ n[t] \in {CD_CMD_PROCESSING, CD_CMD_BUSY}

\* C10 witness: the time read is exactly the timeout after begin, and the
\* thread is about to abort.
C10_Witness ==
    \E t \in Threads :
        /\ pc[t] = "ex_abort"
        /\ timeout[t] # 0
        /\ tnow[t] - begin[t] = timeout[t]

\* The calls of thread t's cycle that its history holds.
CallsOf(t) == {hist[t][k][1] : k \in 1..Len(hist[t])}

\* C11: the abort call is made only on the timeout path of the poll loop: a
\* thread has made one exactly when it is between the abort and the return
\* of CD_ERR_TIMEOUT, so a cycle returns CD_ERR_TIMEOUT if and only if it
\* aborted; and a command is being aborted in the processor only for the
\* thread that is on that path with its handle.
C11_AbortOnlyOnTimeout ==
    /\ \A t \in Threads :
          /\ aborts[t] = IF \/ pc[t] = "ex_abort_tick"
                            \/ (pc[t] = "ex_cleanup" /\ ret[t] = CD_ERR_TIMEOUT)
                         THEN 1 ELSE 0
          /\ "abort" \in CallsOf(t) => aborts[t] = 1
          /\ pc[t] = "ex_abort" => timeout[t] # 0
    /\ \A h \in Handles :
          cmds[h] = "aborting" =>
              \E t \in Threads : pc[t] = "ex_abort_tick" /\ id[t] = h

\* C11 witness: a thread has aborted its command, which the processor is
\* now aborting, and is about to tick and return the timeout.
C11_Witness ==
    \E t \in Threads :
        /\ pc[t] = "ex_abort_tick"
        /\ aborts[t] = 1
        /\ cmds[id[t]] = "aborting"

\* C12: a cycle called with timeout 0 never reads the timer, never aborts
\* and never returns CD_ERR_TIMEOUT; once its submission was accepted it has
\* a return value only after a status check gave a terminal status.
C12_NoTimeoutPollsOn ==
    \A t \in Threads :
        (InCycle(t) /\ timeout[t] = 0) =>
            /\ pc[t] \notin {"ex_time", "ex_abort", "ex_abort_tick"}
            /\ aborts[t] = 0
            /\ "abort" \notin CallsOf(t)
            /\ pc[t] = "ex_cleanup" => ret[t] # CD_ERR_TIMEOUT
            /\ (pc[t] = "ex_cleanup" /\ id[t] > 0) =>
                  /\ EndedOnCheck(t)
                  /\ n[t] \notin {CD_CMD_PROCESSING, CD_CMD_BUSY}

\* C12 witness: a cycle with timeout 0 yields after its second non-terminal
\* status check in a row, the timer being past any timeout.
C12_Witness ==
    \E t \in Threads :
        /\ pc[t] = "ex_pass"
        /\ timeout[t] = 0
        /\ now >= TimeQuantum
        /\ Len(hist[t]) >= 3
        /\ hist[t][Len(hist[t])][1] = "check"
        /\ hist[t][Len(hist[t]) - 2][1] = "check"

\* C13: a submission is attempted only while fewer than CD_CMD_RETRY_MAX
\* attempts were refused, so at most CD_CMD_RETRY_MAX are made; a cycle whose
\* submission was not accepted returns CD_ERR_SYS with no status check and
\* no abort made, after exactly CD_CMD_RETRY_MAX refusals when every attempt
\* was refused.
C13_RetryBound ==
    \A t \in Threads :
        /\ pc[t] = "ex_send" => i[t] <= CD_CMD_RETRY_MAX
        /\ pc[t] \in {"ex_retry_tick", "ex_retry_pass"} =>
              (i[t] < CD_CMD_RETRY_MAX /\ id[t] = 0)
        /\ (pc[t] = "ex_cleanup" /\ id[t] <= 0) =>
              /\ ret[t] = CD_ERR_SYS
              /\ CallsOf(t) \subseteq {"send", "tick"}
              /\ aborts[t] = 0
              /\ reported[t] = NoStatus
        /\ (pc[t] = "ex_cleanup" /\ id[t] = 0) => i[t] = CD_CMD_RETRY_MAX
        /\ (InCycle(t) /\ pc[t] \notin {"ex_send", "ex_retry_tick",
                                         "ex_retry_pass", "ex_cleanup"}) =>
              id[t] > 0

\* C13 witness: ten attempts were refused and the cycle is about to return
\* CD_ERR_SYS, its last firmware call being the tick after the tenth.
C13_Witness ==
    \E t \in Threads :
        /\ pc[t] = "ex_cleanup"
        /\ id[t] = 0
        /\ i[t] = CD_CMD_RETRY_MAX
        /\ ret[t] = CD_ERR_SYS
        /\ LastCall(t) = <<"tick", 0>>

GiveUpOutcomes == {CD_ERR_NO_DISC, CD_ERR_SYS, CD_ERR_TIMEOUT}

\* C15: cdrom_reinit_ex returns the init outcome itself exactly when it is
\* no disc, system error or timeout, the caller's parameters then being
\* untouched and the drive not asked; it is in cdrom_change_datatype, entered
\* with the caller's parameters, only after another outcome, and the value
\* it then returns is that of syscall_gdrom_sector_mode.
C15_NegotiatesUnlessGivenUp ==
    \A t \in Threads :
        op[t] = "reinit_ex" =>
            /\ pc[t] = "re_ret" =>
                  /\ ret[t] \in GiveUpOutcomes
                  /\ args[t] = asked[t]
                  /\ drive[t] = ZeroParams
            /\ pc[t] \in {"cd_lock", "cd_resolve"} =>
                  /\ ret[t] \notin GiveUpOutcomes \cup {CD_ERR_DISC_CHG}
                  /\ args[t] = asked[t]
            /\ pc[t] = "cd_cleanup" => ret[t] \in SectorModeResults

\* C15 witness: one thread's cdrom_reinit_ex is negotiating after an init
\* outcome of CD_ERR_NO_ACTIVE while another's is returning CD_ERR_TIMEOUT.
C15_Witness ==
    \E t \in Threads, u \in Threads :
        /\ op[t] = "reinit_ex" /\ pc[t] = "cd_resolve"
        /\ ret[t] = CD_ERR_NO_ACTIVE
        /\ op[u] = "reinit_ex" /\ pc[u] = "re_ret"
        /\ ret[u] = CD_ERR_TIMEOUT

\* C16: every value cdrom_reinit_ex returns, on the early return and on the
\* return of cdrom_change_datatype's value, is a value of cd_cmd_ret_t.
C16_ReinitReturnsTaxonomy ==
    \A t \in Threads :
        (op[t] = "reinit_ex" /\ pc[t] \in {"re_ret", "cd_cleanup"}) =>
            ret[t] \in Taxonomy

\* The triple of thread t has gone, or is about to go, to
\* syscall_gdrom_sector_mode.
Pushing(t) == pc[t] \in {"cd_mode", "cd_cleanup"}
\* What check_params.disc_type can be taken to be.
AnyDiscType == DiscTypes \cup {0}

\* C17: for a sector size of 2352 the triple pushed has size 2352, track
\* type any where the default was asked for and the whole sector where the
\* default part was asked for; the drive is not asked and the result is the
\* same for every disc type.
C17_RawSectorDefaults ==
    \A t \in Threads :
        (Pushing(t) /\ asked[t].sector_size = 2352) =>
            /\ args[t].sector_size = 2352
            /\ asked[t].track_type = CD_TRACK_TYPE_DEFAULT =>
                  args[t].track_type = CD_TRACK_TYPE_ANY
            /\ asked[t].sector_part = CD_READ_DEFAULT =>
                  args[t].sector_part = CD_READ_WHOLE_SECTOR
            /\ drive[t] = ZeroParams
            /\ \A dt \in AnyDiscType : Resolve(asked[t], dt) = args[t]

\* C17 witness: (default, default, 2352) was asked for and (whole sector,
\* any, 2352) was pushed.
C17_Witness ==
    \E t \in Threads :
        /\ pc[t] = "cd_cleanup"
        /\ asked[t] = Triple(CD_READ_DEFAULT, CD_TRACK_TYPE_DEFAULT, 2352)
        /\ args[t] = Triple(CD_READ_WHOLE_SECTOR, CD_TRACK_TYPE_ANY, 2352)

\* C18: for (default, default, -1) the triple pushed is (data area, mode 2
\* form 1, 2048) when the drive reports a CD-ROM XA disc and (data area,
\* mode 1, 2048) when it reports any other type.
C18_DefaultByDiscType ==
    \A t \in Threads :
        (/\ Pushing(t)
         /\ asked[t] = Triple(CD_READ_DEFAULT, CD_TRACK_TYPE_DEFAULT, -1)) =>
            args[t] = Triple(CD_READ_DATA_AREA,
                             IF drive[t].disc_type = CD_CDROM_XA
                                THEN CD_TRACK_TYPE_MODE2_FORM1
                                ELSE CD_TRACK_TYPE_MODE1,
                             2048)

\* C19: the triple pushed holds no default sentinel, whatever was asked for.
C19_FullyResolved ==
    \A t \in Threads :
        Pushing(t) =>
            /\ args[t].sector_part # CD_READ_DEFAULT
            /\ args[t].track_type # CD_TRACK_TYPE_DEFAULT
            /\ args[t].sector_size # -1

\* C19 witness: every argument was a default and the triple pushed is
\* (data area, mode 1, 2048).
C19_Witness ==
    \E t \in Threads :
        /\ pc[t] = "cd_cleanup"
        /\ asked[t] = Triple(CD_READ_DEFAULT, CD_TRACK_TYPE_DEFAULT, -1)
        /\ args[t] = Triple(CD_READ_DATA_AREA, CD_TRACK_TYPE_MODE1, 2048)

\* No argument of the triple a is a default sentinel.
FullySpecified(a) ==
    /\ a.sector_part # CD_READ_DEFAULT
    /\ a.track_type # CD_TRACK_TYPE_DEFAULT
    /\ a.sector_size # -1

\* C20: when no argument is a default sentinel the triple pushed is the
\* arguments themselves, in every call whatever calls came before, for every
\* disc type, and resolving it again changes nothing.
C20_IdentityOnFullySpecified ==
    \A t \in Threads :
        (Pushing(t) /\ FullySpecified(asked[t])) =>
            /\ args[t] = asked[t]
            /\ \A dt \in AnyDiscType :
                  /\ Resolve(asked[t], dt) = asked[t]
                  /\ Resolve(Resolve(asked[t], dt), dt) = asked[t]

\* C20 witness: (whole sector, any, 2352) was pushed unchanged for one
\* thread while the other waits to make the same call.
C20_Witness ==
    \E t \in Threads, u \in Threads :
        /\ pc[t] = "cd_cleanup"
        /\ asked[t] = Triple(CD_READ_WHOLE_SECTOR, CD_TRACK_TYPE_ANY, 2352)
        /\ args[t] = asked[t]
        /\ pc[u] = "cd_lock"
        /\ asked[u] = asked[t]

\* The statements of cdrom_change_datatype.
DatatypePcs == {"cd_lock", "cd_resolve", "cd_mode", "cd_cleanup"}

\* C21: a call of cdrom_change_datatype has made no
\* syscall_gdrom_sector_mode call before its last statement and exactly one
\* when it returns, and the value it returns is the result of that call as
\* it came; no command is submitted, polled or aborted in the call.
C21_OneSectorModeCall ==
    \A t \in Threads :
        /\ pc[t] # "cd_cleanup" => pushed[t] = <<>>
        /\ pc[t] = "cd_cleanup" =>
              /\ pushed[t] = << <<args[t], ret[t]>> >>
              /\ ret[t] \in SectorModeResults
        /\ pc[t] \in DatatypePcs =>
              /\ hist[t] = <<>>
              /\ id[t] = 0
              /\ aborts[t] = 0

\* C21 witness: the one call failed and cdrom_change_datatype, called from
\* cdrom_reinit_ex, is returning its -1.
C21_Witness ==
    \E t \in Threads :
        /\ pc[t] = "cd_cleanup"
        /\ op[t] = "reinit_ex"
        /\ Len(pushed[t]) = 1
        /\ pushed[t][1][2] = -1
        /\ ret[t] = -1

\* The decoded first and last track numbers of a TOC are in order and
\* within 1..99.
WellFormed(toc) ==
    /\ 1 <= TOC_TRACK(toc.first)
    /\ TOC_TRACK(toc.first) <= TOC_TRACK(toc.last)
    /\ TOC_TRACK(toc.last) <= 99
\* The tracks of first..last whose entry has control nibble 4.
DataTracks(toc) ==
    {k \in TOC_TRACK(toc.first)..TOC_TRACK(toc.last) :
        (toc.entry[k - 1] \div 268435456) % 16 = 4}
\* The 24 low bits of the entry of the highest such track, 0 without one.
HighestDataTrackFad(toc) ==
    IF DataTracks(toc) = {} THEN 0
    ELSE LET k == CHOOSE x \in DataTracks(toc) :
                      \A y \in DataTracks(toc) : y <= x
         IN  toc.entry[k - 1] % 16777216

\* C22: for a TOC with 1 <= first <= last <= 99, cdrom_locate_data_track
\* returns the FAD of the highest track of first..last whose entry has
\* control nibble 4, or 0 when there is none; the entries of other tracks do
\* not count.
C22_HighestDataTrack ==
    (loc.pc = "lt_done" /\ WellFormed(loc.toc)) =>
        loc.result = HighestDataTrackFad(loc.toc)

\* C22 witness: first 1, last 3, nibbles 0, 4, 4 and FADs 100, 200, 300,
\* every later entry being a data track too: 300 is returned.
C22_Witness ==
    /\ loc.pc = "lt_done"
    /\ TOC_TRACK(loc.toc.first) = 1
    /\ TOC_TRACK(loc.toc.last) = 3
    /\ loc.toc.entry[0] = TocWord(0, 1, 100)
    /\ loc.toc.entry[1] = TocWord(4, 1, 200)
    /\ loc.toc.entry[2] = TocWord(4, 1, 300)
    /\ loc.toc.entry[3] = TocWord(4, 1, 900)
    /\ loc.result = 300

\* C23: for a TOC with first < 1, last > 99 or first > last the function
\* is done right after the test, with 0 and no entry read; for every TOC
\* the loop runs with first - 1 <= i <= last <= 99, i going down by one per
\* entry read, so that it ends, and every index read is within 0..98.
C23_MalformedAndBounds ==
    /\ (loc.pc \in {"lt_scan", "lt_done"} /\ ~WellFormed(loc.toc)) =>
          /\ loc.pc = "lt_done"
          /\ loc.result = 0
          /\ loc.read = {}
    /\ loc.pc = "lt_scan" =>
          /\ loc.first - 1 <= loc.i
          /\ loc.i <= loc.last
          /\ loc.last <= 99
          /\ loc.read = {k - 1 : k \in (loc.i + 1)..loc.last}
    /\ loc.pc = "lt_done" => loc.read \subseteq 0..98

\* C23 witness: a TOC with first 0 whose every entry is a data track is
\* answered with 0.
C23_Witness ==
    /\ loc.pc = "lt_done"
    /\ TOC_TRACK(loc.toc.first) = 0
    /\ TOC_TRACK(loc.toc.last) = 2
    /\ loc.toc.entry[0] = TocWord(4, 1, 200)
    /\ loc.toc.entry[1] = TocWord(4, 1, 200)
    /\ loc.result = 0
    /\ loc.read = {}

\* C24: a status query that finds the gate held by another thread does not
\* wait: its very next step is the return of -1, with no drive call made, the
\* gate and its owner left as they were and the caller's outputs unwritten.
C24_NonBlockingFailure ==
    [][\A t \in Threads :
          (pc[t] = "gs_lock" /\ pc'[t] # "gs_lock" /\ mutex # NoThread)
            => /\ pc'[t] = "gs_ret"
               /\ ret'[t] = -1
               /\ mutex' = mutex
               /\ out'[t] = NoOut
               /\ drive' = drive
               /\ params' = params
               /\ hist' = hist
               /\ cmds' = cmds]_vars

C24_Witness ==
    \E t, u \in Threads :
        /\ t # u
        /\ op[t] = "get_status"
        /\ pc[t] = "gs_ret"
        /\ ret[t] = -1
        /\ out[t] = NoOut
        /\ mutex = u
        /\ InCycle(u)

\* Thread t is inside the unit of cdrom_reinit_ex: in a CMD_INIT cycle, back
\* from the last one with an outcome that goes on to the sector format, or in
\* cdrom_change_datatype before its syscall_gdrom_sector_mode call is done.
InReinitUnit(t) ==
    /\ op[t] = "reinit_ex"
    /\ \/ InCycle(t)
       \/ pc[t] = "re_loop" /\ ret[t] \notin GiveUpOutcomes \cup {CD_ERR_DISC_CHG}
       \/ pc[t] \in {"cd_lock", "cd_resolve", "cd_mode"}
\* This step is thread u having a command accepted by the processor.
Submits(u) == pc[u] = "ex_send" /\ id'[u] > 0 /\ hist'[u] # hist[u]
\* This step is thread u making its syscall_gdrom_sector_mode call.
PushesFormat(u) == Len(pushed'[u]) > Len(pushed[u])

\* C25: cdrom_reinit_ex runs the initialisation and the sector format as one
\* unit: from the start of its last CMD_INIT cycle to the end of its
\* syscall_gdrom_sector_mode call no other thread submits a command or
\* changes the sector format.
C25_ReinitIsOneUnit ==
    [][\A t, u \in Threads :
          (t # u /\ InReinitUnit(t)) => ~Submits(u) /\ ~PushesFormat(u)]_vars

\* The timer of the model stops at MaxClockSteps * TimeQuantum: a timed cycle
\* that thread t starts now can see its whole budget pass.
ClockLeft(t) == now + timeout[t] <= MaxClockSteps * TimeQuantum

\* C26: a timed cycle (timeout > 0) never hangs: once it holds the mutex,
\* cdrom_exec_cmd_timed returns and releases the mutex whatever the
\* processor answers, the timer advancing and the thread being scheduled;
\* the CMD_INIT cycles of cdrom_reinit_ex are such cycles.
C26_TimedCycleEnds ==
    \A t \in Threads :
        (pc[t] = "ex_send" /\ i[t] = 0 /\ timeout[t] # 0 /\ ClockLeft(t))
            ~> (~InCycle(t) /\ mutex # t)

\* C26 witness: a CMD_INIT cycle of cdrom_reinit_ex that was accepted, never
\* got a terminal status and has its timeout to return, the mutex still held.
C26_Witness ==
    \E t \in Threads :
        /\ op[t] = "reinit_ex"
        /\ EndedWithoutTerminal(t)
        /\ timeout[t] = REINIT_TIMEOUT
        /\ now - begin[t] >= timeout[t]
        /\ ret[t] = CD_ERR_TIMEOUT
        /\ mutex = t

\* C27: the status query never blocks: every call of cdrom_get_status comes
\* to its return, the mutex free or held and whatever
\* syscall_gdrom_check_drive keeps answering, busy included.
C27_StatusQueryReturns ==
    \A t \in Threads : (pc[t] = "gs_lock") ~> (pc[t] = "gs_ret")

\* C28: a status query that got the mutex returns the rv of its last
\* syscall_gdrom_check_drive call; with rv >= 0 the caller's outputs are the
\* drive status and the disc type that call reported, with rv < 0 they are
\* both -1; and they are written with the mutex released.
C28_StatusOutputs ==
    \A t \in Threads :
        /\ pc[t] = "gs_write" => mutex # t
        /\ (pc[t] = "gs_ret" /\ out[t] # NoOut) =>
              /\ mutex # t
              /\ ret[t] >= 0 => out[t] = drive[t]
              /\ ret[t] < 0 => out[t] = [status |-> -1, disc_type |-> -1]

\* The firmware calls thread t has on record: every status check names the
\* handle of the accepted submission, and comes right after one tick that
\* itself comes right after the submission or the check before.
ChecksInOrder(t) ==
    \A k \in 1..Len(hist[t]) :
        hist[t][k][1] = "check" =>
            /\ id[t] > 0
            /\ hist[t][k][2] = id[t]
            /\ k > 1 => hist[t][k - 1] = <<"tick", 0>>
            /\ k > 2 => /\ hist[t][k - 2][1] \in {"send", "check"}
                        /\ hist[t][k - 2][2] = id[t]
\* This step of thread t follows the poll loop: the check is reached from
\* the tick only, the tick from the accepted submission or from the yield
\* only, and the yield from a non-terminal check (past the timer when there
\* is a timeout) only, so that one yield lies between two checks.
PollOrder(t) ==
    /\ (pc'[t] = "ex_check" /\ pc[t] # "ex_check") => pc[t] = "ex_poll_tick"
    /\ (pc'[t] = "ex_poll_tick" /\ pc[t] # "ex_poll_tick") =>
          \/ pc[t] = "ex_send" /\ id'[t] > 0
          \/ pc[t] = "ex_pass"
    /\ (pc'[t] = "ex_pass" /\ pc[t] # "ex_pass") =>
          /\ pc[t] \in {"ex_check", "ex_time"}
          /\ n'[t] \in {CD_CMD_PROCESSING, CD_CMD_BUSY}
    /\ (pc'[t] = "ex_time" /\ pc[t] # "ex_time") => pc[t] = "ex_check"
    /\ (pc[t] = "ex_pass" /\ pc'[t] # "ex_pass") => pc'[t] = "ex_poll_tick"

\* C29: in the poll loop every syscall_gdrom_check_command call is preceded
\* immediately by exactly one syscall_gdrom_exec_server call, all checks use
\* the handle of the cycle's accepted submission, and between two
\* consecutive checks the thread yields exactly once.
C29_PollLoopOrder ==
    [][\A t \in Threads : ChecksInOrder(t)' /\ PollOrder(t)]_vars

\* C29 witness: a cycle whose last three firmware calls are a check, the
\* tick after the yield and the check that ended it.
C29_Witness ==
    \E t \in Threads :
        /\ EndedOnCheck(t)
        /\ Len(hist[t]) = HistLen
        /\ hist[t][HistLen - 2] = <<"check", id[t]>>
        /\ hist[t][HistLen - 1] = <<"tick", 0>>
        /\ hist[t][HistLen] = <<"check", id[t]>>

\* The statements of the timeout test and of what follows it in the loop.
PastCheckPcs == {"ex_time", "ex_abort", "ex_abort_tick", "ex_pass"}
\* A status that ends the poll loop.
Terminal(nn) == nn # CD_CMD_PROCESSING /\ nn # CD_CMD_BUSY

\* C30: a terminal status wins over the timeout: the timer is looked at
\* after a non-terminal check only, and a cycle that ended on a check has a
\* terminal status, the classified outcome of it, no abort made and never
\* CD_ERR_TIMEOUT, the budget used up or not.
C30_TerminalBeatsTimeout ==
    \A t \in Threads :
        /\ pc[t] \in PastCheckPcs => ~Terminal(n[t])
        /\ EndedOnCheck(t) =>
              /\ Terminal(n[t])
              /\ ret[t] = Classify(n[t], status[t].err1)
              /\ ret[t] # CD_ERR_TIMEOUT
              /\ aborts[t] = 0
              /\ "abort" \notin CallsOf(t)

\* C30 witness: a timed cycle whose budget had run out when the check that
\* ended it reported the command completed, and which returns CD_ERR_OK.
C30_Witness ==
    \E t \in Threads :
        /\ EndedOnCheck(t)
        /\ timeout[t] # 0
        /\ now - begin[t] >= timeout[t]
        /\ n[t] = CD_CMD_COMPLETED
        /\ ret[t] = CD_ERR_OK

\* The statements that are a thd_pass(): lines 81, 106 and 146.
YieldPcs == {"ex_retry_pass", "ex_pass", "gs_pass"}
\* The statements a thread is at only with the mutex taken by itself.
HolderPcs == CyclePcs \cup {"gs_check", "gs_pass", "gs_unlock", "cd_resolve",
                            "cd_mode", "cd_cleanup", "in_reset", "in_unlock"}

\* C31: every thd_pass() of the core is made by the thread that holds the
\* mutex; the yield leaves the mutex with that thread, and while it is at
\* the yield no other thread is in a cycle or past any lock, before and
\* after whatever step is taken.
C31_YieldsHoldGate ==
    [][\A t \in Threads :
          pc[t] \in YieldPcs =>
              /\ mutex = t
              /\ mutex' = t
              /\ \A u \in Threads \ {t} :
                    pc[u] \notin HolderPcs /\ pc'[u] \notin HolderPcs]_vars

\* C31 witness: one thread yields in the busy loop of cdrom_get_status with
\* the mutex, the other has called into the core and is at its lock.
C31_Witness ==
    \E t, u \in Threads :
        /\ t # u
        /\ pc[t] = "gs_pass"
        /\ mutex = t
        /\ pc[u] \in {"ex_lock", "cd_lock", "in_lock"}

\* C32: outside cdrom_reinit_ex no outcome is retried for the caller: in one
\* call of cdrom_exec_cmd_timed the submission loop is entered from the lock
\* or from its own retry only, a submission is accepted only while none was
\* before, and whatever the outcome is, no-disc and disc-changed included,
\* the return hands it to the caller with nothing more submitted, no sector
\* format pushed and no reinitialization started.
C32_NoRetryForCaller ==
    [][\A t \in Threads :
          op[t] = "exec" =>
              /\ (pc'[t] = "ex_send" /\ pc[t] # "ex_send") =>
                    /\ pc[t] \in {"ex_lock", "ex_retry_pass"}
                    /\ id'[t] = 0
              /\ Submits(t) =>
                    /\ id[t] = 0
                    /\ \A k \in 1..Len(hist[t]) : hist[t][k] = <<"send", 0>>
                                                  \/ hist[t][k] = <<"tick", 0>>
              /\ (pc[t] = "ex_cleanup" /\ pc'[t] # "ex_cleanup") =>
                    /\ pc'[t] = "idle"
                    /\ op'[t] = "none"
                    /\ cmds' = cmds
                    /\ pushed' = pushed]_vars

\* C32 witness: a call from outside cdrom_reinit_ex whose one accepted
\* command was reported failed, about to return CD_ERR_SYS to its caller.
C32_Witness ==
    \E t \in Threads :
        /\ op[t] = "exec"
        /\ EndedOnCheck(t)
        /\ id[t] > 0
        /\ n[t] = CD_CMD_FAILED
        /\ ret[t] = CD_ERR_SYS

\* This step is thread t calling syscall_gdrom_send_command.
Sends(t) == pc[t] = "ex_send" /\ hist'[t] # hist[t]

\* C33: only a handle of 0 is retried.  A negative handle ends the
\* submission loop at that attempt: CD_ERR_SYS is the return value and the
\* failed attempt is the last firmware call of the cycle, nothing being left
\* but the return.  A handle of 0 is followed by one tick, then one yield,
\* then the next turn of the loop, and the tick and the yield of the
\* submission loop follow nothing else.
C33_OnlyZeroRetried ==
    [][\A t \in Threads :
          /\ (Sends(t) /\ id'[t] < 0) =>
                /\ pc'[t] = "ex_cleanup"
                /\ ret'[t] = CD_ERR_SYS
          /\ (pc'[t] = "ex_cleanup" /\ id'[t] < 0) =>
                /\ LastCall(t)' = <<"send", id'[t]>>
                /\ ret'[t] = CD_ERR_SYS
          /\ (pc[t] = "ex_cleanup" /\ id[t] < 0 /\ pc'[t] # pc[t]) =>
                pc'[t] \in {"idle", "re_loop"}
          /\ (Sends(t) /\ id'[t] = 0) => pc'[t] = "ex_retry_tick"
          /\ (pc'[t] = "ex_retry_tick" /\ pc[t] # pc'[t]) =>
                Sends(t) /\ id'[t] = 0
          /\ (pc[t] = "ex_retry_tick" /\ pc'[t] # pc[t]) =>
                /\ pc'[t] = "ex_retry_pass"
                /\ hist'[t] = Push(hist[t], <<"tick", 0>>)
          /\ (pc'[t] = "ex_retry_pass" /\ pc[t] # pc'[t]) =>
                pc[t] = "ex_retry_tick"
          /\ (pc[t] = "ex_retry_pass" /\ pc'[t] # pc[t]) =>
                /\ pc'[t] = "ex_send"
                /\ hist'[t] = hist[t]
                /\ i'[t] = i[t] + 1]_vars

\* C33 witness: a cycle whose first attempt got 0, which ticked and yielded
\* once, whose second attempt got a negative handle, and which has
\* CD_ERR_SYS to return.
C33_Witness ==
    \E t \in Threads :
        /\ pc[t] = "ex_cleanup"
        /\ id[t] < 0
        /\ ret[t] = CD_ERR_SYS
        /\ i[t] = 1
        /\ hist[t] = <<(<<"send", 0>>), (<<"tick", 0>>), (<<"send", id[t]>>)>>

FirmwarePcs == {"ex_send", "ex_retry_tick", "ex_poll_tick", "ex_check",
                "ex_abort", "ex_abort_tick", "gs_check", "cd_resolve",
                "cd_mode", "in_reset"}
\* This step is thread t making a firmware call.
FirmwareCall(t) ==
    \/ pc[t] \in CyclePcs /\ hist'[t] # hist[t] /\ hist'[t] # <<>>
    \/ pc[t] = "gs_check" /\ pc'[t] # "gs_check"
    \/ pc[t] = "cd_resolve" /\ pc'[t] # "cd_resolve" /\ AsksDrive(args[t])
    \/ PushesFormat(t)
    \/ pc[t] = "in_reset" /\ pc'[t] # "in_reset"

\* C35: every firmware call of the core is made by the thread that holds
\* _g1_ata_mutex, which it still holds when the call is over; no other
\* thread is at a firmware call then, so the calls of two threads never
\* interleave.
C35_FirmwareUnderMutex ==
    [][\A t \in Threads :
          /\ FirmwareCall(t) =>
                /\ pc[t] \in FirmwarePcs
                /\ mutex = t
                /\ mutex' = t
          /\ pc[t] \in FirmwarePcs =>
                /\ mutex = t
                /\ \A u \in Threads \ {t} : pc[u] \notin FirmwarePcs]_vars

\* C35 witness: one thread has made its syscall_gdrom_sector_mode call with
\* the mutex while the other, in cdrom_init, waits for the mutex before its
\* reset and init calls.
C35_Witness ==
    \E t, u \in Threads :
        /\ t # u
        /\ pc[t] = "cd_cleanup"
        /\ Len(pushed[t]) = 1
        /\ mutex = t
        /\ pc[u] = "in_lock"

====
